---- MODULE Spec2Model ----
(***************************************************************************)
(* A model of the query-to-answer pipeline of the CFO Copilot:             *)
(* CFOPlanner (src/agent/planner.py) on top of FinancialTools              *)
(* (src/tools.py).  Python strings are sequences of one-character strings, *)
(* so that substring tests, regular expressions, lexicographic order,      *)
(* strptime and strftime are computed character by character.              *)
(***************************************************************************)
EXTENDS Integers, Sequences, FiniteSets, TLC

(***************************************************************************)
(* Python str                                                              *)
(***************************************************************************)

\* The characters the model uses, in code-point order.
Ascii == <<" ","&","'","-","0","1","2","3","4","5","6","7","8","9",":","?",
           "A","B","C","D","E","F","G","H","I","J","K","L","M","N","O","P","Q","R",
           "S","T","U","V","W","X","Y","Z","_",
           "a","b","c","d","e","f","g","h","i","j","k","l","m","n","o","p","q","r",
           "s","t","u","v","w","x","y","z">>

CharSet == {Ascii[i] : i \in 1..Len(Ascii)}

\* ord(c), up to an order-preserving renumbering.
Ord == [c \in CharSet |-> CHOOSE i \in 1..Len(Ascii) : Ascii[i] = c]

\* A query that is read as it was written.
AsWritten(s) == s

\* str.lower(): the letters A..Z move to a..z, every other character stays.
Lower(s) ==
  [i \in 1..Len(s) |->
     IF Ord["A"] <= Ord[s[i]] /\ Ord[s[i]] <= Ord["Z"]
     THEN Ascii[Ord[s[i]] + (Ord["a"] - Ord["A"])]
     ELSE s[i]]

\* w in s
Contains(s, w) ==
  \E i \in 1..(Len(s) - Len(w) + 1) : \A n \in 1..Len(w) : s[i + n - 1] = w[n]

\* s.startswith(w)
StartsWith(s, w) == Len(w) <= Len(s) /\ SubSeq(s, 1, Len(w)) = w

\* a < b for str: the first differing character decides, a proper prefix is smaller.
RECURSIVE StrLessFrom(_, _, _)
StrLessFrom(a, b, i) ==
  IF i > Len(a) THEN i <= Len(b)
  ELSE IF i > Len(b) THEN FALSE
  ELSE IF a[i] = b[i] THEN StrLessFrom(a, b, i + 1)
  ELSE Ord[a[i]] < Ord[b[i]]

StrLess(a, b) == StrLessFrom(a, b, 1)

\* max(list of str)
StrMax(xs) == xs[CHOOSE i \in 1..Len(xs) : \A j \in 1..Len(xs) : ~StrLess(xs[i], xs[j])]

(***************************************************************************)
(* Python re: the fragment the planner's patterns use.  A pattern is a     *)
(* sequence of alternatives, an alternative a sequence of atoms.           *)
(***************************************************************************)

Lit(s) == [t |-> "lit", s |-> s]

DotStar == [t |-> "dotstar"]

Opt(c) == [t |-> "opt", c |-> c]

Class(cs) == [t |-> "class", cs |-> cs]

\* Does alternative re, from atom k on, match s at position i?  '.' matches
\* every character but the newline.
RECURSIVE MatchAt(_, _, _, _)
MatchAt(re, k, s, i) ==
  IF k > Len(re) THEN TRUE
  ELSE LET a == re[k] IN
    CASE a.t = "lit" ->
           /\ i + Len(a.s) - 1 <= Len(s)
           /\ \A n \in 1..Len(a.s) : s[i + n - 1] = a.s[n]
           /\ MatchAt(re, k + 1, s, i + Len(a.s))
      [] a.t = "dotstar" ->
           \/ MatchAt(re, k + 1, s, i)
           \/ i <= Len(s) /\ s[i] # "\n" /\ MatchAt(re, k, s, i + 1)
      [] a.t = "opt" ->
           \/ i <= Len(s) /\ s[i] = a.c /\ MatchAt(re, k + 1, s, i + 1)
           \/ MatchAt(re, k + 1, s, i)
      [] a.t = "class" ->
           /\ i <= Len(s)
           /\ s[i] \in a.cs
           /\ MatchAt(re, k + 1, s, i + 1)

\* re.search(p, s) is not None
Search(p, s) ==
  \E i \in 1..(Len(s) + 1) : \E n \in 1..Len(p) : MatchAt(p[n], 1, s, i)

\* The start of the match re.search(p, s) returns: the leftmost one.
SearchStart(p, s) ==
  CHOOSE i \in 1..(Len(s) + 1) :
    /\ \E n \in 1..Len(p) : MatchAt(p[n], 1, s, i)
    /\ \A j \in 1..(i - 1) : \A n \in 1..Len(p) : ~MatchAt(p[n], 1, s, j)

\* 'a.*b.*c' for the literals <<a, b, c>>.
RECURSIVE Chain(_)
Chain(lits) ==
  IF Len(lits) = 1 THEN <<Lit(lits[1])>>
  ELSE <<Lit(lits[1]), DotStar>> \o Chain(Tail(lits))

(***************************************************************************)
(* CFOPlanner: intent patterns                                             *)
(***************************************************************************)

\* The dict _build_intent_patterns returns, in insertion order.
IntentPatterns == <<
  [intent |-> "revenue_vs_budget", patterns |-> <<
     <<Chain(<<<<"r","e","v","e","n","u","e">>, <<"v","s">>, <<"b","u","d","g","e","t">>>>)>>,
     <<Chain(<<<<"r","e","v","e","n","u","e">>, <<"c","o","m","p","a","r","e","d">>, <<"b","u","d","g","e","t">>>>)>>,
     <<Chain(<<<<"a","c","t","u","a","l">>, <<"r","e","v","e","n","u","e">>, <<"b","u","d","g","e","t">>>>)>>,
     <<Chain(<<<<"b","u","d","g","e","t">>, <<"v","s">>, <<"r","e","v","e","n","u","e">>>>)>>,
     <<Chain(<<<<"r","e","v","e","n","u","e">>, <<"a","g","a","i","n","s","t">>, <<"b","u","d","g","e","t">>>>)>> >>],
  [intent |-> "revenue_trend", patterns |-> <<
     <<Chain(<<<<"r","e","v","e","n","u","e">>, <<"t","r","e","n","d">>>>)>>,
     <<Chain(<<<<"r","e","v","e","n","u","e">>, <<"o","v","e","r">>, <<"t","i","m","e">>>>)>>,
     <<Chain(<<<<"r","e","v","e","n","u","e">>, <<"l","a","s","t">>, <<"m","o","n","t","h">>>>) \o <<Opt("s")>> >>,
     <<Chain(<<<<"s","h","o","w">>, <<"r","e","v","e","n","u","e">>>>)>> >>],
  [intent |-> "gross_margin", patterns |-> <<
     <<Chain(<<<<"g","r","o","s","s">>, <<"m","a","r","g","i","n">>>>)>>,
     <<Chain(<<<<"m","a","r","g","i","n">>, <<"t","r","e","n","d">>>>)>>,
     <<Chain(<<<<"m","a","r","g","i","n">>, <<"p","e","r","c","e","n","t">>>>)>>,
     <<Chain(<<<<"p","r","o","f","i","t","a","b","i","l","i","t","y">>>>)>> >>],
  [intent |-> "opex_breakdown", patterns |-> <<
     <<Chain(<<<<"o","p","e","x">>, <<"b","r","e","a","k","d","o","w","n">>>>)>>,
     <<Chain(<<<<"o","p","e","r","a","t","i","n","g">>, <<"e","x","p","e","n","s","e">>>>)>>,
     <<Chain(<<<<"b","r","e","a","k">>, <<"d","o","w","n">>, <<"e","x","p","e","n","s","e">>>>)>>,
     <<Chain(<<<<"e","x","p","e","n","s","e">>, <<"c","a","t","e","g","o","r">>>>)>>,
     <<Chain(<<<<"s","p","e","n","d","i","n","g">>, <<"b","r","e","a","k","d","o","w","n">>>>)>>,
     <<Chain(<<<<"b","r","e","a","k">>, <<"d","o","w","n">>, <<"o","p","e","x">>>>)>>,
     <<Chain(<<<<"s","p","e","n","d","i","n","g">>, <<"c","a","t","e","g","o","r","y">>>>)>> >>],
  [intent |-> "cash_runway", patterns |-> <<
     <<Chain(<<<<"c","a","s","h">>, <<"r","u","n","w","a","y">>>>)>>,
     <<Chain(<<<<"c","a","s","h">>, <<"b","u","r","n">>>>)>>,
     <<Chain(<<<<"h","o","w">>, <<"l","o","n","g">>, <<"c","a","s","h">>>>)>>,
     <<Chain(<<<<"r","u","n","w","a","y">>>>)>> >>],
  [intent |-> "cash_trend", patterns |-> <<
     <<Chain(<<<<"c","a","s","h">>, <<"t","r","e","n","d">>>>)>>,
     <<Chain(<<<<"c","a","s","h">>, <<"o","v","e","r">>, <<"t","i","m","e">>>>)>>,
     <<Chain(<<<<"c","a","s","h">>, <<"b","a","l","a","n","c","e">>>>)>> >>],
  [intent |-> "ebitda", patterns |-> <<
     <<Chain(<<<<"e","b","i","t","d","a">>>>)>>,
     <<Chain(<<<<"o","p","e","r","a","t","i","n","g">>, <<"p","r","o","f","i","t">>>>)>>,
     <<Chain(<<<<"e","a","r","n","i","n","g","s">>>>)>> >>] >>

\* for pattern in patterns: if re.search(pattern, query_lower)
GroupMatches(g, q) ==
  \E n \in 1..Len(IntentPatterns[g].patterns) : Search(IntentPatterns[g].patterns[n], q)

(***************************************************************************)
(* CFOPlanner: time parameters                                             *)
(***************************************************************************)

\* The months dict of _extract_time_params, in insertion order.
MonthNames == <<
  [name |-> <<"j","a","n","u","a","r","y">>, num |-> <<"0","1">>], [name |-> <<"j","a","n">>, num |-> <<"0","1">>],
  [name |-> <<"f","e","b","r","u","a","r","y">>, num |-> <<"0","2">>], [name |-> <<"f","e","b">>, num |-> <<"0","2">>],
  [name |-> <<"m","a","r","c","h">>, num |-> <<"0","3">>], [name |-> <<"m","a","r">>, num |-> <<"0","3">>],
  [name |-> <<"a","p","r","i","l">>, num |-> <<"0","4">>], [name |-> <<"a","p","r">>, num |-> <<"0","4">>],
  [name |-> <<"m","a","y">>, num |-> <<"0","5">>],
  [name |-> <<"j","u","n","e">>, num |-> <<"0","6">>], [name |-> <<"j","u","n">>, num |-> <<"0","6">>],
  [name |-> <<"j","u","l","y">>, num |-> <<"0","7">>], [name |-> <<"j","u","l">>, num |-> <<"0","7">>],
  [name |-> <<"a","u","g","u","s","t">>, num |-> <<"0","8">>], [name |-> <<"a","u","g">>, num |-> <<"0","8">>],
  [name |-> <<"s","e","p","t","e","m","b","e","r">>, num |-> <<"0","9">>], [name |-> <<"s","e","p">>, num |-> <<"0","9">>],
  [name |-> <<"o","c","t","o","b","e","r">>, num |-> <<"1","0">>], [name |-> <<"o","c","t">>, num |-> <<"1","0">>],
  [name |-> <<"n","o","v","e","m","b","e","r">>, num |-> <<"1","1">>], [name |-> <<"n","o","v">>, num |-> <<"1","1">>],
  [name |-> <<"d","e","c","e","m","b","e","r">>, num |-> <<"1","2">>], [name |-> <<"d","e","c">>, num |-> <<"1","2">>] >>

\* r'202[3-6]'
YearPattern == << <<Lit(<<"2","0","2">>), Class({"3","4","5","6"})>> >>

\* 'Assume 2025 if no year specified'
DefaultYear == <<"2","0","2","5">>

\* '2025-12  # Fallback' of _get_latest_month
FallbackMonth == <<"2","0","2","5","-","1","2">>

\* The year of specific_month: the first match of r'202[3-6]', else 2025.
YearOf(query) ==
  IF Search(YearPattern, query)
  THEN LET i == SearchStart(YearPattern, query) IN SubSeq(query, i, i + 3)
  ELSE DefaultYear

\* for month_name, month_num in months.items(): the first name found in the query
\* sets specific_month and ends the loop.
RECURSIVE SpecificMonthFrom(_, _, _)
SpecificMonthFrom(query, n, params) ==
  IF n > Len(MonthNames) THEN params
  ELSE IF Contains(query, MonthNames[n].name)
       THEN ("specific_month" :> (YearOf(query) \o <<"-">> \o MonthNames[n].num)) @@ params
       ELSE SpecificMonthFrom(query, n + 1, params)

PatLast3 == << Chain(<<<<"l","a","s","t">>, <<"3">>, <<"m","o","n","t","h">>>>) \o <<Opt("s")>> >>

PatLast6 == << Chain(<<<<"l","a","s","t">>, <<"6">>, <<"m","o","n","t","h">>>>) \o <<Opt("s")>> >>

PatLastMonth == << Chain(<<<<"l","a","s","t">>, <<"m","o","n","t","h">>>>) >>

PatThisMonth == << Chain(<<<<"t","h","i","s">>, <<"m","o","n","t","h">>>>) >>

PatYtd == << <<Lit(<<"y","t","d">>)>>, Chain(<<<<"y","e","a","r">>, <<"t","o">>, <<"d","a","t","e">>>>) >>

PatQuarter == << <<Lit(<<"q">>), Class({"1","2","3","4"})>>, <<Lit(<<"q","u","a","r","t","e","r">>)>> >>

PatQuarterNumber == << <<Lit(<<"q">>), Class({"1","2","3","4"})>> >>

\* f'q{quarter_match.group(1)}'
QuarterPeriod(d) ==
  CASE d = "1" -> "q1" [] d = "2" -> "q2" [] d = "3" -> "q3" [] d = "4" -> "q4"

\* The if/elif chain over the relative periods.
RelativePeriod(query, params) ==
  IF Search(PatLast3, query) THEN ("period" :> "last_3_months") @@ params
  ELSE IF Search(PatLast6, query) THEN ("period" :> "last_6_months") @@ params
  ELSE IF Search(PatLastMonth, query) THEN ("period" :> "last_month") @@ params
  ELSE IF Search(PatThisMonth, query) THEN ("period" :> "current_month") @@ params
  ELSE IF Search(PatYtd, query) THEN ("period" :> "ytd") @@ params
  ELSE IF Search(PatQuarter, query)
       THEN IF Search(PatQuarterNumber, query)
            THEN ("period" :>
                    QuarterPeriod(query[SearchStart(PatQuarterNumber, query) + 1])) @@ params
            ELSE params
  ELSE params

\* An empty dict.
EmptyDict == [k \in {} |-> 0]

\* _get_latest_month
GetLatestMonth(month_columns) ==
  IF month_columns # <<>> THEN StrMax(month_columns) ELSE FallbackMonth

\* No default: the params are left as the phrases of the query made them.
NoDefault(params, month_columns) == params

\* A default that is the fixed month June 2025, whatever the data.
DefaultToJune(params, month_columns) ==
  IF "specific_month" \notin DOMAIN params /\ "period" \notin DOMAIN params
  THEN ("specific_month" :> <<"2","0","2","5","-","0","6">>) @@ params
  ELSE params

\* A default that is added whenever no month was named, period or not.
DefaultWithoutMonth(params, month_columns) ==
  IF "specific_month" \notin DOMAIN params
  THEN ("specific_month" :> GetLatestMonth(month_columns)) @@ params
  ELSE params

\* 'if 'specific_month' not in params and 'period' not in params': the default.
DefaultToLatest(params, month_columns) ==
  IF "specific_month" \notin DOMAIN params /\ "period" \notin DOMAIN params
  THEN ("specific_month" :> GetLatestMonth(month_columns)) @@ params
  ELSE params

\* _extract_time_params: the month names, then the relative periods, then the default.
ExtractTimeParams(query, month_columns) ==
  DefaultToLatest(RelativePeriod(query, SpecificMonthFrom(query, 1, EmptyDict)),
                  month_columns)

\* The groups tried from the last to the first.
RECURSIVE IntentFromLast(_, _)
IntentFromLast(q, g) ==
  IF g > Len(IntentPatterns) THEN "general"
  ELSE IF GroupMatches(Len(IntentPatterns) + 1 - g, q)
       THEN IntentPatterns[Len(IntentPatterns) + 1 - g].intent
  ELSE IntentFromLast(q, g + 1)

\* for intent, patterns in self.intent_patterns.items(): the first group with a
\* matching pattern is returned; 'general' when there is none.
RECURSIVE IntentFrom(_, _)
IntentFrom(q, g) ==
  IF g > Len(IntentPatterns) THEN "general"
  ELSE IF GroupMatches(g, q) THEN IntentPatterns[g].intent
  ELSE IntentFrom(q, g + 1)

\* classify_intent
ClassifyIntent(query, month_columns) ==
  [intent |-> IntentFrom(Lower(query), 1),
   params |-> ExtractTimeParams(Lower(query), month_columns)]

(***************************************************************************)
(* datetime: strptime(s, '%Y-%m'), relativedelta(months=k), strftime       *)
(***************************************************************************)

Digits == <<"0","1","2","3","4","5","6","7","8","9">>

IsDigit(c) == \E i \in 1..Len(Digits) : Digits[i] = c

\* int(c) for a digit c
DigitValue(c) == (CHOOSE i \in 1..Len(Digits) : Digits[i] = c) - 1

\* Optional[...]: None, or a value.
None == [some |-> FALSE]

Some(v) == [some |-> TRUE, v |-> v]

\* Results of operations that may raise.
Ok(v) == [ok |-> TRUE, v |-> v]

Raise(e) == [ok |-> FALSE, err |-> e]

\* datetime.strptime(s, '%Y-%m'): %Y is four digits, %m is 1[0-2], 0[1-9] or
\* [1-9], nothing may remain, and the year must be at least 1.
Strptime(s) ==
  LET yearOk == /\ Len(s) >= 5
                /\ \A i \in 1..4 : IsDigit(s[i])
                /\ s[5] = "-"
      year  == 1000 * DigitValue(s[1]) + 100 * DigitValue(s[2])
                 + 10 * DigitValue(s[3]) + DigitValue(s[4])
      rest  == SubSeq(s, 6, Len(s))
      two   == /\ Len(rest) = 2
               /\ \/ rest[1] = "1" /\ rest[2] \in {"0","1","2"}
                  \/ rest[1] = "0" /\ IsDigit(rest[2]) /\ rest[2] # "0"
      one   == Len(rest) = 1 /\ IsDigit(rest[1]) /\ rest[1] # "0"
  IN IF yearOk /\ (two \/ one) /\ year >= 1
     THEN Ok([year |-> year,
              month |-> IF two THEN 10 * DigitValue(rest[1]) + DigitValue(rest[2])
                        ELSE DigitValue(rest[1])])
     ELSE Raise("ValueError")

\* A subtraction that forgets to borrow from the year.
MinusMonthsSameYear(dt, k) ==
  LET m0 == dt.month - (k % 12)
  IN Ok([year |-> dt.year - (k \div 12), month |-> IF m0 < 1 THEN m0 + 12 ELSE m0])

\* dt - relativedelta(months=k), k >= 0: the delta is normalised to years and
\* at most 11 months, then the year and the month are moved; a year below 1 raises.
MinusMonths(dt, k) ==
  LET years  == k \div 12
      months == k % 12
      m0     == dt.month - months
      year   == IF m0 < 1 THEN dt.year - years - 1 ELSE dt.year - years
      month  == IF m0 < 1 THEN m0 + 12 ELSE m0
  IN IF year >= 1 THEN Ok([year |-> year, month |-> month]) ELSE Raise("ValueError")

\* str(n) for n >= 0
RECURSIVE NatToStr(_)
NatToStr(n) == IF n < 10 THEN <<Digits[n + 1]>> ELSE NatToStr(n \div 10) \o <<Digits[(n % 10) + 1]>>

\* dt.strftime('%Y-%m'): the year as the C library prints it, the month on two digits.
StrftimeYm(dt) ==
  NatToStr(dt.year) \o <<"-">> \o <<Digits[(dt.month \div 10) + 1], Digits[(dt.month % 10) + 1]>>

\* _calculate_month_range(months_back, end_month); end_month is optional
\* (None, or Some month) and defaults to latest_month, the planner's latest month.
CalculateMonthRange(latest_month, months_back, end_month) ==
  LET end == IF end_month.some THEN end_month.v ELSE latest_month
      end_dt == Strptime(end)
  IN IF ~end_dt.ok THEN end_dt
     ELSE LET start_dt == MinusMonths(end_dt.v, months_back - 1) IN
          IF ~start_dt.ok THEN start_dt
          ELSE Ok([start_month |-> StrftimeYm(start_dt.v), end_month |-> end])

(***************************************************************************)
(* FinancialTools (src/tools.py): tables are pandas DataFrames, a row is a *)
(* function from column names to values.  Amounts are integers; an FX rate *)
(* r is held as 100 * r, and every *_usd value in hundredths of a dollar.  *)
(***************************************************************************)

ColAccount == <<"a","c","c","o","u","n","t">>

ColCurrency == <<"c","u","r","r","e","n","c","y">>

UsdSuffix == <<"_","u","s","d">>

Usd == <<"U","S","D">>

\* 'fx_rate = 1.0  # Default USD rate', in hundredths
DefaultFxRate == 100

\* col in a list of str
InList(xs, x) == \E i \in 1..Len(xs) : xs[i] = x

\* series.sum()
RECURSIVE SumOf(_, _)
SumOf(rows, col) ==
  IF rows = <<>> THEN 0 ELSE rows[1][col] + SumOf(Tail(rows), col)

\* self.month_columns = [col for col in self.actuals.columns if col.startswith('2025-')]
MonthColumnsOf(actuals_df) ==
  LET Is2025(col) == StartsWith(col, <<"2","0","2","5","-">>) IN SelectSeq(actuals_df.columns, Is2025)

\* 'Revenue|Sales', case=False
PatRevenue == << <<Lit(<<"r","e","v","e","n","u","e">>)>>, <<Lit(<<"s","a","l","e","s">>)>> >>

\* 'COGS|Cost of Goods|Cost of Sales', case=False
PatCogs == << <<Lit(<<"c","o","g","s">>)>>, <<Lit(<<"c","o","s","t"," ","o","f"," ","g","o","o","d","s">>)>>, <<Lit(<<"c","o","s","t"," ","o","f"," ","s","a","l","e","s">>)>> >>

\* 'Revenue|Sales|COGS|Cost of Goods|Cost of Sales', case=False
PatRevenueOrCogs == PatRevenue \o PatCogs

\* df[df['account'].str.contains(pat, case=False, na=False)], negated for keep = FALSE;
\* a frame without the column raises KeyError.
FilterAccounts(df, pat, keep) ==
  IF ~InList(df.columns, ColAccount) THEN Raise("KeyError")
  ELSE LET Sel(row) == Search(pat, Lower(row[ColAccount])) = keep
       IN Ok([columns |-> df.columns, rows |-> SelectSeq(df.rows, Sel)])

\* A conversion that never looks a rate up.
FxRateAlwaysDefault(fx, currency, month) == Ok(DefaultFxRate)

\* The FX rate _convert_to_usd uses for a currency and a month.
FxRate(fx, currency, month) ==
  IF currency = Usd THEN Ok(DefaultFxRate)
  ELSE IF ~InList(fx.columns, ColCurrency) THEN Raise("KeyError")
  ELSE LET IsCur(row) == row[ColCurrency] = currency
           fx_row == SelectSeq(fx.rows, IsCur)
       IN IF fx_row # <<>> /\ InList(fx.columns, month)
          THEN Ok(IF fx_row[1][month] = 0 THEN DefaultFxRate ELSE fx_row[1][month])
          ELSE Ok(DefaultFxRate)

\* _convert_to_usd(df, month): the frame with the column '<month>_usd' added, when
\* the month is one of month_columns, the frame has rows and has the month's column.
ConvertToUsd(fx, month_columns, df, month) ==
  LET Cur(row) == IF ColCurrency \in DOMAIN row THEN row[ColCurrency] ELSE Usd
      usd == month \o UsdSuffix
  IN IF ~InList(month_columns, month) THEN Ok(df)
     ELSE IF \E i \in 1..Len(df.rows) : ~FxRate(fx, Cur(df.rows[i]), month).ok
     THEN Raise("KeyError")
     ELSE IF df.rows = <<>> \/ ~InList(df.columns, month) THEN Ok(df)
     ELSE Ok([columns |-> Append(df.columns, usd),
              rows |-> [i \in 1..Len(df.rows) |->
                          (usd :> df.rows[i][month] * FxRate(fx, Cur(df.rows[i]), month).v)
                          @@ df.rows[i]]])

\* df[f'{month}_usd'].sum() if f'{month}_usd' in df.columns else 0
UsdTotal(df, month) ==
  IF InList(df.columns, month \o UsdSuffix) THEN SumOf(df.rows, month \o UsdSuffix) ELSE 0

\* [col for col in self.month_columns if start_month <= col <= end_month]
MonthsBetween(month_columns, start_month, end_month) ==
  LET In(col) == ~StrLess(col, start_month) /\ ~StrLess(end_month, col)
  IN SelectSeq(month_columns, In)

\* The first exception of a list of results, or the list of their values.
Collect(rs) ==
  IF \E i \in 1..Len(rs) : ~rs[i].ok
  THEN rs[CHOOSE i \in 1..Len(rs) : ~rs[i].ok /\ \A j \in 1..(i - 1) : rs[j].ok]
  ELSE Ok([i \in 1..Len(rs) |-> rs[i].v])

\* A float that is a quotient of two integers.
Ratio(num, den) == [num |-> num, den |-> den]

\* num / den * 100
Percent(num, den) == Ratio(100 * num, den)

Abs(n) == IF n < 0 THEN -n ELSE n

\* One turn of the loop of get_revenue_vs_budget, on the two converted frames.
RevenueVsBudgetRow(month, actual_with_usd, budget_with_usd) ==
  IF ~actual_with_usd.ok THEN actual_with_usd
  ELSE IF ~budget_with_usd.ok THEN budget_with_usd
  ELSE Ok([month |-> month,
           actual_usd |-> UsdTotal(actual_with_usd.v, month),
           budget_usd |-> UsdTotal(budget_with_usd.v, month),
           variance_usd |-> UsdTotal(actual_with_usd.v, month)
                              - UsdTotal(budget_with_usd.v, month),
           variance_pct |-> IF UsdTotal(budget_with_usd.v, month) > 0
                            THEN Percent(UsdTotal(actual_with_usd.v, month)
                                           - UsdTotal(budget_with_usd.v, month),
                                         UsdTotal(budget_with_usd.v, month))
                            ELSE Ratio(0, 1)])

\* The loop of get_revenue_vs_budget over the months of the window.
RevenueVsBudgetRows(self, revenue_accounts, budget_revenue, months) ==
  IF ~revenue_accounts.ok THEN revenue_accounts
  ELSE IF ~budget_revenue.ok THEN budget_revenue
  ELSE Collect([i \in 1..Len(months) |->
         RevenueVsBudgetRow(months[i],
           ConvertToUsd(self.fx, self.month_columns, revenue_accounts.v, months[i]),
           ConvertToUsd(self.fx, self.month_columns, budget_revenue.v, months[i]))])

\* get_revenue_vs_budget(start_month, end_month)
GetRevenueVsBudget(self, start_month, end_month) ==
  RevenueVsBudgetRows(self,
    FilterAccounts(self.actuals, PatRevenue, TRUE),
    FilterAccounts(self.budget, PatRevenue, TRUE),
    MonthsBetween(self.month_columns, start_month, end_month))

\* One turn of the loop of get_revenue_trend.
RevenueTrendRow(month, actual_with_usd) ==
  IF ~actual_with_usd.ok THEN actual_with_usd
  ELSE Ok([month |-> month, revenue_usd |-> UsdTotal(actual_with_usd.v, month)])

RevenueTrendRows(self, revenue_accounts, months) ==
  IF ~revenue_accounts.ok THEN revenue_accounts
  ELSE Collect([i \in 1..Len(months) |->
         RevenueTrendRow(months[i],
           ConvertToUsd(self.fx, self.month_columns, revenue_accounts.v, months[i]))])

\* get_revenue_trend(start_month, end_month)
GetRevenueTrend(self, start_month, end_month) ==
  RevenueTrendRows(self,
    FilterAccounts(self.actuals, PatRevenue, TRUE),
    MonthsBetween(self.month_columns, start_month, end_month))

\* One turn of the loop of get_gross_margin_trend.
GrossMarginRow(month, revenue_with_usd, cogs_with_usd) ==
  IF ~revenue_with_usd.ok THEN revenue_with_usd
  ELSE IF ~cogs_with_usd.ok THEN cogs_with_usd
  ELSE Ok([month |-> month,
           revenue_usd |-> UsdTotal(revenue_with_usd.v, month),
           cogs_usd |-> UsdTotal(cogs_with_usd.v, month),
           gross_profit_usd |-> UsdTotal(revenue_with_usd.v, month)
                                  - UsdTotal(cogs_with_usd.v, month),
           gross_margin_pct |-> IF UsdTotal(revenue_with_usd.v, month) > 0
                                THEN Percent(UsdTotal(revenue_with_usd.v, month)
                                               - UsdTotal(cogs_with_usd.v, month),
                                             UsdTotal(revenue_with_usd.v, month))
                                ELSE Ratio(0, 1)])

GrossMarginRows(self, revenue_accounts, cogs_accounts, months) ==
  IF ~revenue_accounts.ok THEN revenue_accounts
  ELSE IF ~cogs_accounts.ok THEN cogs_accounts
  ELSE Collect([i \in 1..Len(months) |->
         GrossMarginRow(months[i],
           ConvertToUsd(self.fx, self.month_columns, revenue_accounts.v, months[i]),
           ConvertToUsd(self.fx, self.month_columns, cogs_accounts.v, months[i]))])

\* get_gross_margin_trend(start_month, end_month)
GetGrossMarginTrend(self, start_month, end_month) ==
  GrossMarginRows(self,
    FilterAccounts(self.actuals, PatRevenue, TRUE),
    FilterAccounts(self.actuals, PatCogs, TRUE),
    MonthsBetween(self.month_columns, start_month, end_month))

\* The keyword lists of _categorize_expense, in the order of its if/elif chain.
ExpenseCategories == <<
  [category |-> <<"R","&","D">>,
   terms |-> <<<<"r","&","d">>, <<"r","e","s","e","a","r","c","h">>, <<"d","e","v","e","l","o","p","m","e","n","t">>, <<"e","n","g","i","n","e","e","r","i","n","g">>>>],
  [category |-> <<"S","a","l","e","s"," ","&"," ","M","a","r","k","e","t","i","n","g">>,
   terms |-> <<<<"s","a","l","e","s">>, <<"m","a","r","k","e","t","i","n","g">>, <<"a","d","v","e","r","t","i","s","i","n","g">>>>],
  [category |-> <<"G","e","n","e","r","a","l"," ","&"," ","A","d","m","i","n">>,
   terms |-> <<<<"a","d","m","i","n">>, <<"g","e","n","e","r","a","l">>, <<"l","e","g","a","l">>, <<"f","i","n","a","n","c","e">>, <<"h","r">>>>],
  [category |-> <<"F","a","c","i","l","i","t","i","e","s">>,
   terms |-> <<<<"r","e","n","t">>, <<"o","f","f","i","c","e">>, <<"u","t","i","l","i","t","i","e","s">>, <<"f","a","c","i","l","i","t","i","e","s">>>>],
  [category |-> <<"P","e","r","s","o","n","n","e","l">>,
   terms |-> <<<<"s","a","l","a","r","y">>, <<"w","a","g","e","s">>, <<"p","a","y","r","o","l","l">>, <<"c","o","m","p","e","n","s","a","t","i","o","n">>>> ] >>

\* _categorize_expense(account), from the n-th branch of the chain on
RECURSIVE CategorizeExpense(_, _)
CategorizeExpense(account, n) ==
  IF n > Len(ExpenseCategories) THEN <<"O","t","h","e","r">>
  ELSE IF \E i \in 1..Len(ExpenseCategories[n].terms) :
            Contains(Lower(account), ExpenseCategories[n].terms[i])
       THEN ExpenseCategories[n].category
       ELSE CategorizeExpense(account, n + 1)

\* The keys of df.groupby('category'), sorted.
RECURSIVE SortStrings(_)
SortStrings(S) ==
  IF S = {} THEN <<>>
  ELSE LET m == CHOOSE x \in S : \A y \in S : ~StrLess(y, x)
       IN <<m>> \o SortStrings(S \ {m})

\* The list get_opex_breakdown builds: a dict per row with a non-zero amount.
OpexResults(rows, usd, month) ==
  LET NonZero(row) == (IF usd \in DOMAIN row THEN row[usd] ELSE 0) # 0
      kept == SelectSeq(rows, NonZero)
  IN [i \in 1..Len(kept) |->
        [account |-> kept[i][ColAccount],
         category |-> CategorizeExpense(kept[i][ColAccount], 1),
         amount_usd |-> kept[i][usd],
         month |-> month]]

\* df.groupby('category')['amount_usd'].sum().reset_index(), with the month added.
GroupByCategory(results, cats, month) ==
  [i \in 1..Len(cats) |->
     [category |-> cats[i],
      amount_usd |-> LET InCat(r) == r.category = cats[i]
                     IN SumOf(SelectSeq(results, InCat), "amount_usd"),
      month |-> month]]

\* The grouped frame of get_opex_breakdown, from the converted frame.
OpexGrouped(results, month) ==
  GroupByCategory(results,
                  SortStrings({results[i].category : i \in 1..Len(results)}), month)

OpexBreakdownOf(month, opex_with_usd) ==
  IF ~opex_with_usd.ok THEN opex_with_usd
  ELSE Ok(OpexGrouped(OpexResults(opex_with_usd.v.rows, month \o UsdSuffix, month), month))

\* get_opex_breakdown(month)
GetOpexBreakdown(self, month) ==
  IF ~FilterAccounts(self.actuals, PatRevenueOrCogs, FALSE).ok
  THEN FilterAccounts(self.actuals, PatRevenueOrCogs, FALSE)
  ELSE IF ~InList(self.month_columns, month) THEN Ok(<<>>)
  ELSE OpexBreakdownOf(month,
         ConvertToUsd(self.fx, self.month_columns,
                      FilterAccounts(self.actuals, PatRevenueOrCogs, FALSE).v, month))

\* The balance get_current_cash_balance reads from the converted cash frame.
CashBalanceOf(cash_with_usd, usd) ==
  IF ~cash_with_usd.ok THEN None
  ELSE IF InList(cash_with_usd.v.columns, usd) THEN Some(SumOf(cash_with_usd.v.rows, usd))
  ELSE None

\* get_current_cash_balance(): max() of an empty month_columns raises ValueError,
\* which the method catches, as it does every exception.
GetCurrentCashBalance(self) ==
  IF self.month_columns = <<>> THEN None
  ELSE CashBalanceOf(ConvertToUsd(self.fx, self.month_columns, self.cash,
                                  StrMax(self.month_columns)),
                     StrMax(self.month_columns) \o UsdSuffix)

\* xs[-n:]
LastN(xs, n) == IF Len(xs) <= n THEN xs ELSE SubSeq(xs, Len(xs) - n + 1, Len(xs))

RECURSIVE SumSeq(_)
SumSeq(xs) == IF xs = <<>> THEN 0 ELSE xs[1] + SumSeq(Tail(xs))

\* np.mean of the differences of successive balances
MeanChange(cash_balances) ==
  IF Len(cash_balances) < 2 THEN None
  ELSE Some(Ratio(SumSeq([i \in 1..(Len(cash_balances) - 1) |->
                            cash_balances[i + 1] - cash_balances[i]]),
                  Len(cash_balances) - 1))

\* The balances get_average_burn_rate collects from the converted frames.
CashBalances(latest_months, conv) ==
  LET HasUsd(i) == InList(conv[i].v.columns, latest_months[i] \o UsdSuffix)
      idx == SelectSeq([i \in 1..Len(latest_months) |-> i], HasUsd)
  IN [n \in 1..Len(idx) |-> SumOf(conv[idx[n]].v.rows, latest_months[idx[n]] \o UsdSuffix)]

\* The body of get_average_burn_rate; an exception gives None.
BurnRateOf(latest_months, conv) ==
  IF \E i \in 1..Len(conv) : ~conv[i].ok THEN None
  ELSE MeanChange(CashBalances(latest_months, conv))

\* get_average_burn_rate(months)
GetAverageBurnRate(self, months) ==
  BurnRateOf(LastN(self.month_columns, months),
             [i \in 1..Len(LastN(self.month_columns, months)) |->
                ConvertToUsd(self.fx, self.month_columns, self.cash,
                             LastN(self.month_columns, months)[i])])

\* 'avg_burn = self.get_average_burn_rate(months=3)'
BurnMonths == 3

\* 'if current_cash and avg_burn and avg_burn < 0' and the quotient
RunwayOf(current_cash, avg_burn) ==
  IF /\ current_cash.some /\ current_cash.v # 0
     /\ avg_burn.some /\ avg_burn.v.num # 0
     /\ avg_burn.v.num < 0
  THEN Some(Ratio(current_cash.v * avg_burn.v.den, Abs(avg_burn.v.num)))
  ELSE None

\* get_cash_runway()
GetCashRunway(self) ==
  RunwayOf(GetCurrentCashBalance(self), GetAverageBurnRate(self, BurnMonths))

\* One turn of the loop of get_cash_trend.
CashTrendRow(month, cash_with_usd) ==
  IF ~cash_with_usd.ok THEN cash_with_usd
  ELSE Ok([month |-> month, cash_balance_usd |-> UsdTotal(cash_with_usd.v, month)])

\* The loop of get_cash_trend over the months of the window.
CashTrendRows(self, months) ==
  Collect([i \in 1..Len(months) |->
    CashTrendRow(months[i],
                 ConvertToUsd(self.fx, self.month_columns, self.cash, months[i]))])

\* get_cash_trend(start_month, end_month)
GetCashTrend(self, start_month, end_month) ==
  CashTrendRows(self, MonthsBetween(self.month_columns, start_month, end_month))

\* An EBITDA that leaves the operating expenses out.
EbitdaBeforeOpex(month, r, c, o) ==
  IF ~r.ok \/ ~c.ok \/ ~o.ok THEN None
  ELSE Some([revenue |-> UsdTotal(r.v, month),
             cogs |-> UsdTotal(c.v, month),
             opex |-> UsdTotal(o.v, month),
             ebitda |-> UsdTotal(r.v, month) - UsdTotal(c.v, month),
             month |-> month])

\* The dict get_ebitda returns, from the three converted frames.
EbitdaOf(month, r, c, o) ==
  IF ~r.ok \/ ~c.ok \/ ~o.ok THEN None
  ELSE Some([revenue |-> UsdTotal(r.v, month),
             cogs |-> UsdTotal(c.v, month),
             opex |-> UsdTotal(o.v, month),
             ebitda |-> UsdTotal(r.v, month) - UsdTotal(c.v, month) - UsdTotal(o.v, month),
             month |-> month])

\* get_ebitda(month): None when the month is unknown or anything raises; the three
\* filters raise together, when the frame has no 'account' column.
GetEbitda(self, month) ==
  IF ~InList(self.month_columns, month) THEN None
  ELSE IF ~FilterAccounts(self.actuals, PatRevenue, TRUE).ok THEN None
  ELSE EbitdaOf(month,
         ConvertToUsd(self.fx, self.month_columns,
                      FilterAccounts(self.actuals, PatRevenue, TRUE).v, month),
         ConvertToUsd(self.fx, self.month_columns,
                      FilterAccounts(self.actuals, PatCogs, TRUE).v, month),
         ConvertToUsd(self.fx, self.month_columns,
                      FilterAccounts(self.actuals, PatRevenueOrCogs, FALSE).v, month))

(***************************************************************************)
(* CFOPlanner: the handlers.  A response is the sequence of the pieces the *)
(* handler concatenates: literal text, and formatted values kept as the    *)
(* values they print.  A handler's result holds the response and the calls *)
(* of aggregation operations it made.                                      *)
(***************************************************************************)

\* A literal piece of an f-string; never empty.
T(s) == [k |-> "text", s |-> s]

\* A formatted value.
F(kind, v) == [k |-> kind, v |-> v]

Call(op, start_month, end_month) == [op |-> op, start_month |-> start_month, end_month |-> end_month]

Handled(response, calls) == [response |-> response, calls |-> calls]

RECURSIVE Concat(_)
Concat(seqs) == IF seqs = <<>> THEN <<>> ELSE seqs[1] \o Concat(Tail(seqs))

\* dict.get(key, default)
DictGet(d, key, default) == IF key \in DOMAIN d THEN d[key] ELSE default

\* params.get('specific_month', self._get_latest_month())
MonthParam(self, params) ==
  DictGet(params, "specific_month", GetLatestMonth(self.month_columns))

\* A handler that says nothing when it has no data.
NoDataBlank(what, month) == <<>>

\* f'No {what} for {month}.'
NoDataFor(what, month) == <<T(what), F("str", month), T(".")>>

\* f'Error ...: {str(e)}', the except clause of a handler
ErrorText(what, e) == <<T(what), F("exception", e)>>

\* The response _handle_revenue_vs_budget formats from the first row.
RevenueVsBudgetText(dt, actual, budget, variance) ==
  <<T("**Revenue Performance for "), F("%B %Y", dt), T(":**\n\n"),
    T("* **Actual Revenue:** $"), F("millions", actual), T("M\n"),
    T("* **Budgeted Revenue:** $"), F("millions", budget), T("M\n"),
    T("* **Variance:** "), F("signed percent", variance), T("% "),
    IF variance.num > 0 THEN T("(Above budget)") ELSE T("(Below budget)")>>

\* The body of _handle_revenue_vs_budget after the call.
RevenueVsBudgetResponse(month, data, dt) ==
  IF ~data.ok THEN ErrorText("Error retrieving revenue data: ", data.err)
  ELSE IF data.v = <<>> THEN NoDataFor("No revenue data found for ", month)
  ELSE IF ~dt.ok THEN ErrorText("Error retrieving revenue data: ", dt.err)
  ELSE RevenueVsBudgetText(dt.v, data.v[1].actual_usd, data.v[1].budget_usd,
         IF data.v[1].budget_usd > 0
         THEN Percent(data.v[1].actual_usd - data.v[1].budget_usd, data.v[1].budget_usd)
         ELSE Ratio(0, 1))

\* _handle_revenue_vs_budget(params)
HandleRevenueVsBudget(self, params) ==
  Handled(RevenueVsBudgetResponse(MonthParam(self, params),
            GetRevenueVsBudget(self, MonthParam(self, params), MonthParam(self, params)),
            Strptime(MonthParam(self, params))),
          <<Call("get_revenue_vs_budget", MonthParam(self, params),
                 MonthParam(self, params))>>)

\* The parsed month of each row, or the exception strptime raises on one.
RowDates(rows) == Collect([i \in 1..Len(rows) |-> Strptime(rows[i].month)])

\* The window of _handle_revenue_trend.
RevenueTrendWindow(params, latest_month) ==
  IF DictGet(params, "period", "") = "last_3_months"
  THEN CalculateMonthRange(latest_month, 3, Some(latest_month))
  ELSE IF DictGet(params, "period", "") = "last_6_months"
  THEN CalculateMonthRange(latest_month, 6, Some(latest_month))
  ELSE CalculateMonthRange(latest_month, 6, Some(latest_month))

\* The response _handle_revenue_trend formats from a non-empty frame.
RevenueTrendText(range, rows, dates) ==
  IF ~dates.ok THEN ErrorText("Error retrieving revenue trend: ", dates.err)
  ELSE <<T("**Revenue Trend ("), F("str", range.start_month), T(" to "),
         F("str", range.end_month), T("):**\n\n")>>
       \o Concat([i \in 1..Len(rows) |->
            <<T("* "), F("%b %Y", dates.v[i]), T(": $"),
              F("millions", rows[i].revenue_usd), T("M\n")>>])
       \o (IF Len(rows) > 1
           THEN <<T("\n**Total Growth:** "),
                  F("signed percent",
                    IF rows[1].revenue_usd > 0
                    THEN Percent(rows[Len(rows)].revenue_usd - rows[1].revenue_usd,
                                 rows[1].revenue_usd)
                    ELSE Ratio(0, 1)),
                  T("%")>>
           ELSE <<>>)
       \o <<T("\nCHART_DATA:"), F("json", rows)>>

\* The body of _handle_revenue_trend after the call.
RevenueTrendResponse(range, data) ==
  IF ~data.ok THEN ErrorText("Error retrieving revenue trend: ", data.err)
  ELSE IF data.v = <<>> THEN <<T("No revenue trend data available.")>>
  ELSE RevenueTrendText(range, data.v, RowDates(data.v))

\* _handle_revenue_trend on its window; no call is made when the window raises.
RevenueTrendOver(self, range) ==
  IF ~range.ok THEN Handled(ErrorText("Error retrieving revenue trend: ", range.err), <<>>)
  ELSE Handled(RevenueTrendResponse(range.v,
                 GetRevenueTrend(self, range.v.start_month, range.v.end_month)),
               <<Call("get_revenue_trend", range.v.start_month, range.v.end_month)>>)

\* _handle_revenue_trend(params)
HandleRevenueTrend(self, params) ==
  RevenueTrendOver(self, RevenueTrendWindow(params, GetLatestMonth(self.month_columns)))

\* The window of _handle_gross_margin.
GrossMarginWindow(params, latest_month) ==
  IF DictGet(params, "period", "") = "last_3_months"
  THEN CalculateMonthRange(latest_month, 3, Some(latest_month))
  ELSE Ok([start_month |-> DictGet(params, "specific_month", latest_month),
           end_month   |-> DictGet(params, "specific_month", latest_month)])

\* The single-month response of _handle_gross_margin.
GrossMarginMonthText(row, dt) ==
  IF ~dt.ok THEN ErrorText("Error retrieving gross margin data: ", dt.err)
  ELSE <<T("**Gross Margin for "), F("%B %Y", dt.v), T(":** "),
         F("percent", row.gross_margin_pct), T("%\n\n"),
         T("* **Revenue:** $"), F("millions", row.revenue_usd), T("M\n"),
         T("* **COGS:** $"), F("millions", row.cogs_usd), T("M")>>

\* The trend response of _handle_gross_margin.
GrossMarginTrendText(range, rows, dates) ==
  IF ~dates.ok THEN ErrorText("Error retrieving gross margin data: ", dates.err)
  ELSE <<T("**Gross Margin Trend ("), F("str", range.start_month), T(" to "),
         F("str", range.end_month), T("):**\n\n")>>
       \o Concat([i \in 1..Len(rows) |->
            <<T("* "), F("%b %Y", dates.v[i]), T(": "),
              F("percent", rows[i].gross_margin_pct), T("%\n")>>])
       \o <<T("\n**Average Margin:** "),
            F("mean percent", [i \in 1..Len(rows) |-> rows[i].gross_margin_pct]),
            T("%")>>

\* The body of _handle_gross_margin after the call.
GrossMarginResponse(range, data) ==
  IF ~data.ok THEN ErrorText("Error retrieving gross margin data: ", data.err)
  ELSE IF data.v = <<>> THEN <<T("No gross margin data available.")>>
  ELSE IF range.start_month = range.end_month
  THEN GrossMarginMonthText(data.v[1], Strptime(data.v[1].month))
  ELSE GrossMarginTrendText(range, data.v, RowDates(data.v))

\* _handle_gross_margin on its window; no call is made when the window raises.
GrossMarginOver(self, range) ==
  IF ~range.ok
  THEN Handled(ErrorText("Error retrieving gross margin data: ", range.err), <<>>)
  ELSE Handled(GrossMarginResponse(range.v,
                 GetGrossMarginTrend(self, range.v.start_month, range.v.end_month)),
               <<Call("get_gross_margin_trend", range.v.start_month, range.v.end_month)>>)

\* _handle_gross_margin(params)
HandleGrossMargin(self, params) ==
  GrossMarginOver(self, GrossMarginWindow(params, GetLatestMonth(self.month_columns)))

\* data.sort_values('amount_usd', ascending=False): descending, equal amounts
\* keep their order (frames this small are sorted by insertion).
RECURSIVE SortByAmountDesc(_)
SortByAmountDesc(rows) ==
  IF rows = <<>> THEN <<>>
  ELSE LET i == CHOOSE n \in 1..Len(rows) :
                  /\ \A j \in 1..Len(rows) : rows[j].amount_usd <= rows[n].amount_usd
                  /\ \A j \in 1..(n - 1) : rows[j].amount_usd < rows[n].amount_usd
       IN <<rows[i]>> \o SortByAmountDesc(SubSeq(rows, 1, i - 1) \o SubSeq(rows, i + 1, Len(rows)))

\* The response _handle_opex_breakdown formats; numpy division by a zero total
\* gives inf or nan, it does not raise.
OpexText(dt, total, data_sorted) ==
  <<T("**Operating Expenses for "), F("%B %Y", dt), T(":**\n\n"),
    T("**Total OpEx:** $"), F("millions", total), T("M\n\n"),
    T("**Breakdown by Category:**\n")>>
  \o Concat([i \in 1..Len(data_sorted) |->
       <<T("* **"), F("str", data_sorted[i].category), T(":** $"),
         F("millions", data_sorted[i].amount_usd), T("M ("),
         F("percent", Ratio(100 * data_sorted[i].amount_usd, total)), T("%)\n")>>])

\* The body of _handle_opex_breakdown after the call.
OpexResponse(month, data, dt) ==
  IF ~data.ok THEN ErrorText("Error retrieving OpEx breakdown: ", data.err)
  ELSE IF data.v = <<>> THEN NoDataFor("No operating expense data found for ", month)
  ELSE IF ~dt.ok THEN ErrorText("Error retrieving OpEx breakdown: ", dt.err)
  ELSE OpexText(dt.v, SumSeq([i \in 1..Len(data.v) |-> data.v[i].amount_usd]),
                SortByAmountDesc(data.v))

\* _handle_opex_breakdown(params)
HandleOpexBreakdown(self, params) ==
  Handled(OpexResponse(MonthParam(self, params),
                       GetOpexBreakdown(self, MonthParam(self, params)),
                       Strptime(MonthParam(self, params))),
          <<Call("get_opex_breakdown", MonthParam(self, params), MonthParam(self, params))>>)

\* The runway thresholds of _handle_cash_runway, in months.
CriticalMonths == 6

CautionMonths == 12

\* A cash-runway response whose status is Healthy whatever the runway is.
CashRunwayAlwaysHealthy(runway_months, current_cash, burn_rate) ==
  <<T("**Cash Runway Analysis:**\n\n")>>
  \o (IF runway_months.some /\ runway_months.v.num # 0
      THEN <<T("* **Current Runway:** "), F("months", runway_months.v), T(" months\n"),
             T("* **Status:** Healthy\n")>>
      ELSE <<>>)

\* The response _handle_cash_runway builds from the three values; None and 0
\* are both falsy.
CashRunwayResponse(runway_months, current_cash, burn_rate) ==
  <<T("**Cash Runway Analysis:**\n\n")>>
  \o (IF runway_months.some /\ runway_months.v.num # 0
      THEN <<T("* **Current Runway:** "), F("months", runway_months.v), T(" months\n"),
             IF runway_months.v.num < CriticalMonths * runway_months.v.den
             THEN T("* **Status:** Critical - Consider fundraising\n")
             ELSE IF runway_months.v.num < CautionMonths * runway_months.v.den
             THEN T("* **Status:** Caution - Monitor closely\n")
             ELSE T("* **Status:** Healthy\n")>>
      ELSE <<>>)
  \o (IF current_cash.some /\ current_cash.v # 0
      THEN <<T("* **Current Cash:** $"), F("millions", current_cash.v), T("M\n")>>
      ELSE <<>>)
  \o (IF burn_rate.some /\ burn_rate.v.num # 0
      THEN <<T("* **Avg Monthly Burn:** $"),
             F("millions", Ratio(Abs(burn_rate.v.num), burn_rate.v.den)), T("M\n")>>
      ELSE <<>>)

\* _handle_cash_runway(params); get_average_burn_rate() has months=3 by default.
HandleCashRunway(self, params) ==
  Handled(CashRunwayResponse(GetCashRunway(self), GetCurrentCashBalance(self),
                             GetAverageBurnRate(self, BurnMonths)),
          <<Call("get_cash_runway", <<>>, <<>>),
            Call("get_current_cash_balance", <<>>, <<>>),
            Call("get_average_burn_rate", <<>>, <<>>)>>)

\* The window of _handle_cash_trend.
CashTrendWindow(params, latest_month) ==
  IF DictGet(params, "period", "") = "last_6_months"
  THEN CalculateMonthRange(latest_month, 6, Some(latest_month))
  ELSE CalculateMonthRange(latest_month, 6, Some(latest_month))

\* The response _handle_cash_trend formats from a non-empty frame.
CashTrendText(range, rows, dates) ==
  IF ~dates.ok THEN ErrorText("Error retrieving cash trend: ", dates.err)
  ELSE <<T("**Cash Balance Trend ("), F("str", range.start_month), T(" to "),
         F("str", range.end_month), T("):**\n\n")>>
       \o Concat([i \in 1..Len(rows) |->
            <<T("* "), F("%b %Y", dates.v[i]), T(": $"),
              F("millions", rows[i].cash_balance_usd), T("M\n")>>])
       \o (IF Len(rows) > 1
           THEN <<T("\n**Net Change:** $"),
                  F("signed millions",
                    rows[Len(rows)].cash_balance_usd - rows[1].cash_balance_usd),
                  T("M")>>
           ELSE <<>>)

\* The body of _handle_cash_trend after the call.
CashTrendResponse(range, data) ==
  IF ~data.ok THEN ErrorText("Error retrieving cash trend: ", data.err)
  ELSE IF data.v = <<>> THEN <<T("No cash trend data available.")>>
  ELSE CashTrendText(range, data.v, RowDates(data.v))

\* _handle_cash_trend on its window; no call is made when the window raises.
CashTrendOver(self, range) ==
  IF ~range.ok THEN Handled(ErrorText("Error retrieving cash trend: ", range.err), <<>>)
  ELSE Handled(CashTrendResponse(range.v,
                 GetCashTrend(self, range.v.start_month, range.v.end_month)),
               <<Call("get_cash_trend", range.v.start_month, range.v.end_month)>>)

\* _handle_cash_trend(params)
HandleCashTrend(self, params) ==
  CashTrendOver(self, CashTrendWindow(params, GetLatestMonth(self.month_columns)))

\* The response _handle_ebitda formats from the dict.
EbitdaText(dt, d) ==
  <<T("**EBITDA for "), F("%B %Y", dt), T(":**\n\n"),
    T("* **Revenue:** $"), F("millions", d.revenue), T("M\n"),
    T("* **COGS:** $"), F("millions", d.cogs), T("M\n"),
    T("* **OpEx:** $"), F("millions", d.opex), T("M\n"),
    T("* **EBITDA:** $"), F("millions", d.ebitda), T("M\n\n")>>
  \o (IF d.revenue > 0
      THEN <<T("**EBITDA Margin:** "), F("percent", Percent(d.ebitda, d.revenue)), T("%")>>
      ELSE <<>>)

\* The body of _handle_ebitda after the call; 'if not ebitda_data' is None, the
\* dict always has five keys and is truthy.
EbitdaResponse(month, ebitda_data, dt) ==
  IF ~ebitda_data.some THEN NoDataFor("No EBITDA data available for ", month)
  ELSE IF ~dt.ok THEN ErrorText("Error calculating EBITDA: ", dt.err)
  ELSE EbitdaText(dt.v, ebitda_data.v)

\* _handle_ebitda(params)
HandleEbitda(self, params) ==
  Handled(EbitdaResponse(MonthParam(self, params), GetEbitda(self, MonthParam(self, params)),
                         Strptime(MonthParam(self, params))),
          <<Call("get_ebitda", MonthParam(self, params), MonthParam(self, params))>>)

\* _handle_general_query(query): the fixed help text.
HandleGeneralQuery(query) ==
  Handled(<<T("I can help you with various financial analyses. Here are some things you can ask:\n\n"),
            T("Try asking one of these questions!")>>,
          <<>>)

\* The dispatch of process_query.
Dispatch(self, intent, params, query) ==
  IF intent = "revenue_vs_budget" THEN HandleRevenueVsBudget(self, params)
  ELSE IF intent = "revenue_trend" THEN HandleRevenueTrend(self, params)
  ELSE IF intent = "gross_margin" THEN HandleGrossMargin(self, params)
  ELSE IF intent = "opex_breakdown" THEN HandleOpexBreakdown(self, params)
  ELSE IF intent = "cash_runway" THEN HandleCashRunway(self, params)
  ELSE IF intent = "cash_trend" THEN HandleCashTrend(self, params)
  ELSE IF intent = "ebitda" THEN HandleEbitda(self, params)
  ELSE HandleGeneralQuery(query)

\* process_query(query): classify, dispatch, and the catch-all around both.
\* A query that is not a str makes query.lower() raise AttributeError.
NotAString == <<"None">>

Apology(e) ==
  <<T("I apologize, but I encountered an error processing your query: "),
    F("exception", e), T(". Please try rephrasing your question.")>>

\* What process_query returns once the handler has answered.
Answered(c, h) ==
  [intent |-> c.intent, params |-> c.params, response |-> h.response,
   calls |-> h.calls, escaped |-> FALSE]

\* The except clause of process_query: the apology, and nothing escapes.
Caught(e) ==
  [intent |-> "", params |-> EmptyDict, response |-> Apology(e),
   calls |-> <<>>, escaped |-> FALSE]

Routed(self, c, query) == Answered(c, Dispatch(self, c.intent, c.params, query))

ProcessQuery(self, query) ==
  IF query = NotAString THEN Caught("AttributeError")
  ELSE Routed(self, ClassifyIntent(query, self.month_columns), query)

(***************************************************************************)
(* The session data: the four frames a session is constructed from.        *)
(***************************************************************************)

\* A row of a wide frame: the fixed cells and one cell per month column.
WideRow(fixed, months, amounts) ==
  fixed @@ [m \in {months[i] : i \in 1..Len(months)} |->
              amounts[CHOOSE i \in 1..Len(months) : months[i] = m]]

Account(name, currency) == (ColAccount :> name) @@ (ColCurrency :> currency)

Frame(fixed_columns, months, rows) == [columns |-> fixed_columns \o months, rows |-> rows]

\* Three months of 2025 in order, one revenue account in EUR.
DataThreeMonths ==
  LET m == <<<<"2","0","2","5","-","0","4">>, <<"2","0","2","5","-","0","5">>, <<"2","0","2","5","-","0","6">>>> IN
  [actuals |-> Frame(<<ColAccount, ColCurrency>>, m, <<
      WideRow(Account(<<"R","e","v","e","n","u","e">>, Usd), m, <<700, 750, 800>>),
      WideRow(Account(<<"S","e","r","v","i","c","e","s"," ","R","e","v","e","n","u","e">>, <<"E","U","R">>), m, <<100, 100, 200>>),
      WideRow(Account(<<"C","O","G","S">>, Usd), m, <<300, 310, 320>>),
      WideRow(Account(<<"M","a","r","k","e","t","i","n","g">>, Usd), m, <<100, 120, 110>>),
      WideRow(Account(<<"R","&","D">>, Usd), m, <<150, 150, 150>>) >>),
   budget |-> Frame(<<ColAccount, ColCurrency>>, m, <<
      WideRow(Account(<<"R","e","v","e","n","u","e">>, Usd), m, <<720, 740, 790>>),
      WideRow(Account(<<"C","O","G","S">>, Usd), m, <<290, 300, 310>>) >>),
   fx |-> Frame(<<ColCurrency>>, m, <<
      WideRow((ColCurrency :> <<"E","U","R">>), m, <<108, 109, 110>>) >>),
   cash |-> Frame(<<<<"e","n","t","i","t","y">>>>, m, <<
      WideRow((<<"e","n","t","i","t","y">> :> <<"C","o","n","s","o","l","i","d","a","t","e","d">>), m, <<5000, 4800, 4600>>) >>)]

\* Months out of order, and months of other years beside those of 2025.
DataMixedYears ==
  LET m == <<<<"2","0","2","5","-","0","2">>, <<"2","0","2","5","-","0","1">>, <<"2","0","2","4","-","1","2">>, <<"2","0","2","6","-","0","1">>>> IN
  [actuals |-> Frame(<<ColAccount, ColCurrency>>, m, <<
      WideRow(Account(<<"R","e","v","e","n","u","e">>, Usd), m, <<500, 400, 300, 600>>),
      WideRow(Account(<<"C","o","s","t"," ","o","f"," ","S","a","l","e","s">>, Usd), m, <<200, 200, 200, 200>>),
      WideRow(Account(<<"O","f","f","i","c","e"," ","R","e","n","t">>, Usd), m, <<50, 50, 50, 50>>) >>),
   budget |-> Frame(<<ColAccount, ColCurrency>>, m, <<
      WideRow(Account(<<"R","e","v","e","n","u","e">>, Usd), m, <<0, 450, 300, 600>>) >>),
   fx |-> Frame(<<ColCurrency>>, m, <<>>),
   cash |-> Frame(<<<<"e","n","t","i","t","y">>>>, m, <<
      WideRow((<<"e","n","t","i","t","y">> :> <<"C","o","n","s","o","l","i","d","a","t","e","d">>), m, <<900, 1000, 1100, 800>>) >>)]

\* A quarterly total beside the months: '2025-Q1' starts with '2025-'.
DataQuarterColumn ==
  LET m == <<<<"2","0","2","5","-","0","2">>, <<"2","0","2","5","-","0","3">>, <<"2","0","2","5","-","Q","1">>>> IN
  [actuals |-> Frame(<<ColAccount, ColCurrency>>, m, <<
      WideRow(Account(<<"R","e","v","e","n","u","e">>, Usd), m, <<200, 300, 600>>),
      WideRow(Account(<<"C","O","G","S">>, Usd), m, <<100, 100, 300>>),
      WideRow(Account(<<"P","a","y","r","o","l","l">>, Usd), m, <<50, 50, 150>>) >>),
   budget |-> Frame(<<ColAccount, ColCurrency>>, m, <<
      WideRow(Account(<<"R","e","v","e","n","u","e">>, Usd), m, <<250, 250, 750>>) >>),
   fx |-> Frame(<<ColCurrency>>, m, <<>>),
   cash |-> Frame(<<<<"e","n","t","i","t","y">>>>, m, <<
      WideRow((<<"e","n","t","i","t","y">> :> <<"C","o","n","s","o","l","i","d","a","t","e","d">>), m, <<400, 500, 500>>) >>)]

\* The long layout of the tests' fixtures: one row per month and category, no
\* month columns and no 'account' column.
DataLongLayout ==
  LET cols == <<<<"m","o","n","t","h">>, <<"e","n","t","i","t","y">>, <<"a","c","c","o","u","n","t","_","c","a","t","e","g","o","r","y">>, <<"a","m","o","u","n","t">>, ColCurrency>>
      Long(month, category, amount) ==
        (<<"m","o","n","t","h">> :> month) @@ (<<"e","n","t","i","t","y">> :> <<"P","a","r","e","n","t","C","o">>) @@
        (<<"a","c","c","o","u","n","t","_","c","a","t","e","g","o","r","y">> :> category) @@ (<<"a","m","o","u","n","t">> :> amount) @@ (ColCurrency :> Usd)
  IN
  [actuals |-> [columns |-> cols, rows |-> <<
      Long(<<"2","0","2","5","-","0","5">>, <<"R","e","v","e","n","u","e">>, 765), Long(<<"2","0","2","5","-","0","6">>, <<"R","e","v","e","n","u","e">>, 780) >>],
   budget |-> [columns |-> cols, rows |-> <<
      Long(<<"2","0","2","5","-","0","5">>, <<"R","e","v","e","n","u","e">>, 780), Long(<<"2","0","2","5","-","0","6">>, <<"R","e","v","e","n","u","e">>, 800) >>],
   fx |-> [columns |-> <<<<"m","o","n","t","h">>, ColCurrency, <<"r","a","t","e","_","t","o","_","u","s","d">>>>, rows |-> <<
      (<<"m","o","n","t","h">> :> <<"2","0","2","5","-","0","6">>) @@ (ColCurrency :> Usd) @@ (<<"r","a","t","e","_","t","o","_","u","s","d">> :> 100) >>],
   cash |-> [columns |-> <<<<"m","o","n","t","h">>, <<"e","n","t","i","t","y">>, <<"c","a","s","h","_","u","s","d">>>>, rows |-> <<
      (<<"m","o","n","t","h">> :> <<"2","0","2","5","-","0","6">>) @@ (<<"e","n","t","i","t","y">> :> <<"C","o","n","s","o","l","i","d","a","t","e","d">>) @@ (<<"c","a","s","h","_","u","s","d">> :> 4000) >>]]

DataSets == {DataThreeMonths, DataMixedYears, DataQuarterColumn, DataLongLayout}

(***************************************************************************)
(* The queries: up to MaxWords phrases of the vocabulary, joined by blanks *)
(***************************************************************************)

MaxWords == 2

Vocabulary == <<
  <<"r","e","v","e","n","u","e"," ","v","s"," ","b","u","d","g","e","t">>, <<"J","u","n","e"," ","r","e","v","e","n","u","e">>, <<"G","r","o","s","s"," ","m","a","r","g","i","n">>, <<"p","r","o","f","i","t","a","b","i","l","i","t","y">>,
  <<"o","p","e","x"," ","b","r","e","a","k","d","o","w","n">>, <<"c","a","s","h"," ","r","u","n","w","a","y">>, <<"c","a","s","h"," ","b","a","l","a","n","c","e">>, <<"E","B","I","T","D","A">>,
  <<"f","o","r"," ","J","u","n","e">>, <<"F","e","b"," ","2","0","2","4">>,
  <<"l","a","s","t"," ","3"," ","m","o","n","t","h","s">>, <<"l","a","s","t"," ","6"," ","m","o","n","t","h","s">>, <<"l","a","s","t"," ","m","o","n","t","h">>, <<"t","h","i","s"," ","m","o","n","t","h">>,
  <<"y","t","d">>, <<"Q","2">>, <<"q","u","a","r","t","e","r">>, <<"h","e","l","l","o">> >>

\* ' '.join(words)
RECURSIVE Join(_)
Join(words) ==
  IF words = <<>> THEN <<>>
  ELSE IF Len(words) = 1 THEN words[1]
  ELSE words[1] \o <<" ">> \o Join(Tail(words))

\* Every query of at most MaxWords phrases, and the value that is no str.
Queries ==
  {Join([i \in 1..Len(p) |-> Vocabulary[p[i]]]) :
     p \in UNION {[1..n -> 1..Len(Vocabulary)] : n \in 0..MaxWords}}
  \cup {NotAString}

(***************************************************************************)
(* The session and its queries                                             *)
(***************************************************************************)

VARIABLES
  actuals, budget, fx, cash,  \* FinancialTools' copies of the four frames
  month_columns,              \* FinancialTools.month_columns
  phase,                      \* "idle": waiting for a query; "answered": one was processed
  query,                      \* the query of the last process_query call
  intent, params,             \* what classify_intent returned for it
  response,                   \* the string process_query returned
  calls,                      \* the aggregation calls the handler made
  escaped,                    \* an exception left process_query
  range_call,                 \* a direct call of _calculate_month_range and its result
  threads                     \* the direct calls of FinancialTools in flight, per caller

vars == <<actuals, budget, fx, cash, month_columns, phase, query, intent, params,
          response, calls, escaped, range_call, threads>>

\* self.tools
Tools == [actuals |-> actuals, budget |-> budget, fx |-> fx, cash |-> cash,
          month_columns |-> month_columns]

NoAnswer ==
  /\ query = <<>>
  /\ intent = ""
  /\ params = EmptyDict
  /\ response = <<>>
  /\ calls = <<>>
  /\ escaped = FALSE

\* _preprocess_data: df[self.month_columns] raises KeyError when the budget or the
\* cash frame lacks one of the month columns of the actuals; the amounts of the
\* model are integers, so that fillna has nothing to fill.
PreprocessData(d, month_cols) ==
  IF \E i \in 1..Len(month_cols) :
       ~InList(d.budget.columns, month_cols[i]) \/ ~InList(d.cash.columns, month_cols[i])
  THEN Raise("KeyError")
  ELSE Ok(d)

\* FinancialTools.__init__ on one of the data sets, then CFOPlanner.__init__.
Construct(d) ==
  /\ PreprocessData(d, MonthColumnsOf(d.actuals)).ok
  /\ actuals = d.actuals
  /\ budget = d.budget
  /\ fx = d.fx
  /\ cash = d.cash
  /\ month_columns = MonthColumnsOf(d.actuals)

Init ==
  /\ \E d \in DataSets : Construct(d)
  /\ phase = "idle"
  /\ NoAnswer
  /\ range_call = [months_back |-> 0, end_month |-> None, result |-> None]
  /\ threads = <<>>

\* handle_query of the app: one process_query call on the session.
HandleQuery(q) ==
  /\ phase = "idle"
  /\ \E r \in {ProcessQuery(Tools, q)} :
       /\ query' = q
       /\ intent' = r.intent
       /\ params' = r.params
       /\ response' = r.response
       /\ calls' = r.calls
       /\ escaped' = r.escaped
  /\ phase' = "answered"
  /\ UNCHANGED <<actuals, budget, fx, cash, month_columns, range_call, threads>>

\* The app shows the answer and waits for the next query.
Rerun ==
  /\ phase = "answered"
  /\ phase' = "idle"
  /\ query' = <<>>
  /\ intent' = ""
  /\ params' = EmptyDict
  /\ response' = <<>>
  /\ calls' = <<>>
  /\ escaped' = FALSE
  /\ UNCHANGED <<actuals, budget, fx, cash, month_columns, range_call, threads>>

Next ==
  \/ \E q \in Queries : HandleQuery(q)
  \/ Rerun

Spec == Init /\ [][Next]_vars

(***************************************************************************)
(* _calculate_month_range called directly, for every number of months and *)
(* every end month of the years the planner knows.                         *)
(***************************************************************************)

MaxMonthsBack == 14

FirstYear == 2023

LastYear == 2026

InitRange ==
  /\ Construct(DataThreeMonths)
  /\ phase = "idle"
  /\ NoAnswer
  /\ \E n \in 1..MaxMonthsBack :
     \E e \in {None} \cup {Some(StrftimeYm([year |-> y, month |-> m])) :
                              y \in FirstYear..LastYear, m \in 1..12} :
       range_call = [months_back |-> n, end_month |-> e, result |-> None]
  /\ threads = <<>>

CallCalculateMonthRange ==
  /\ ~range_call.result.some
  /\ range_call' = [range_call EXCEPT
       !.result = Some(CalculateMonthRange(GetLatestMonth(month_columns),
                                           range_call.months_back, range_call.end_month))]
  /\ UNCHANGED <<actuals, budget, fx, cash, month_columns, phase, query, intent,
                 params, response, calls, escaped, threads>>

SpecRange == InitRange /\ [][CallCalculateMonthRange]_vars

(***************************************************************************)
(* FinancialTools called directly: by the key metrics of the app, by the   *)
(* tests, and by several callers at once.  A call of an operation with a   *)
(* loop over months takes one step per month; every other call is one step.*)
(***************************************************************************)

\* Amounts of both signs, a currency the FX table does not know (GBP), a
\* rate of 0 and a budget of 0.
DataSignedAmounts ==
  LET m == <<<<"2","0","2","5","-","0","1">>, <<"2","0","2","5","-","0","2">>, <<"2","0","2","5","-","0","3">>>> IN
  [actuals |-> Frame(<<ColAccount, ColCurrency>>, m, <<
      WideRow(Account(<<"R","e","v","e","n","u","e">>, Usd), m, <<500, -200, 0>>),
      WideRow(Account(<<"E","x","p","o","r","t"," ","S","a","l","e","s">>, <<"E","U","R">>), m, <<100, 100, 40>>),
      WideRow(Account(<<"L","i","c","e","n","c","e"," ","R","e","v","e","n","u","e">>, <<"G","B","P">>), m, <<10, 0, 0>>),
      WideRow(Account(<<"C","O","G","S">>, Usd), m, <<200, 50, 30>>),
      WideRow(Account(<<"P","a","y","r","o","l","l">>, Usd), m, <<50, 50, 50>>) >>),
   budget |-> Frame(<<ColAccount, ColCurrency>>, m, <<
      WideRow(Account(<<"R","e","v","e","n","u","e">>, Usd), m, <<400, -150, 0>>) >>),
   fx |-> Frame(<<ColCurrency>>, m, <<
      WideRow((ColCurrency :> <<"E","U","R">>), m, <<110, 0, 120>>) >>),
   cash |-> Frame(<<<<"e","n","t","i","t","y">>>>, m, <<
      WideRow((<<"e","n","t","i","t","y">> :> <<"C","o","n","s","o","l","i","d","a","t","e","d">>), m, <<1000, 900, 700>>) >>)]

\* df.drop(columns=[col]): a frame that lacks a month.
WithoutColumn(df, col) ==
  LET Other(c) == c # col IN
  [columns |-> SelectSeq(df.columns, Other),
   rows |-> [i \in 1..Len(df.rows) |->
               [c \in (DOMAIN df.rows[i]) \ {col} |-> df.rows[i][c]]]]

\* The data sets of the direct calls: the budget, the FX table or the cash of the
\* last ones lacks a month the actuals have.
ToolDataSets ==
  {DataThreeMonths, DataSignedAmounts, DataLongLayout,
   [DataSignedAmounts EXCEPT !.fx = WithoutColumn(@, <<"2","0","2","5","-","0","3">>)],
   [DataSignedAmounts EXCEPT !.budget = WithoutColumn(@, <<"2","0","2","5","-","0","3">>)],
   [DataThreeMonths EXCEPT !.cash = WithoutColumn(@, <<"2","0","2","5","-","0","5">>)]}

\* The operations, by the arguments they take: a window of months and a loop over
\* it, one month, the name of a session table and a month, nothing, a query.
Operations ==
  [loop |-> {"get_revenue_vs_budget", "get_revenue_trend", "get_gross_margin_trend",
             "get_cash_trend"},
   month |-> {"get_opex_breakdown", "get_ebitda"},
   table |-> {"_convert_to_usd"},
   session |-> {"get_cash_runway", "get_current_cash_balance", "get_average_burn_rate"},
   query |-> {"process_query"}]

\* The arguments the callers pass: the whole window, every month of the session,
\* a month without data; every session table; some queries.
Arguments(self, kind) ==
  LET months == {self.month_columns[i] : i \in 1..Len(self.month_columns)} \cup {<<"2","0","2","4","-","1","2">>}
  IN CASE kind = "loop" -> {<<<<"2","0","2","5","-","0","1">>, <<"2","0","2","5","-","1","2">>>>} \cup {<<m, m>> : m \in months}
       [] kind = "month" -> {<<m>> : m \in months}
       [] kind = "table" -> {<<t, m>> : t \in {"actuals", "budget", "cash"}, m \in months}
       [] kind = "session" -> {<<>>}
       [] kind = "query" -> {<<<<"c","a","s","h"," ","b","a","l","a","n","c","e">>>>, <<<<"c","a","s","h"," ","r","u","n","w","a","y">>>>, <<<<"G","r","o","s","s"," ","m","a","r","g","i","n">>>>}

\* _convert_to_usd writing its column to the frame it was given.
WrittenByConvert(fx_df, month_cols, df, month) ==
  IF ConvertToUsd(fx_df, month_cols, df, month).ok
  THEN ConvertToUsd(fx_df, month_cols, df, month).v
  ELSE df

\* result_df = df.copy(): _convert_to_usd writes its column to a copy, so the frame
\* it was given is, after the call, what it was before.
LeftByConvert(fx_df, month_cols, df, month) == df

\* The months for which an operation passes self.cash itself to _convert_to_usd;
\* every other frame it passes is the fresh result of a filter.
RECURSIVE CashMonths(_, _, _)
CashMonths(self, op, args) ==
  CASE op = "get_cash_trend" -> MonthsBetween(self.month_columns, args[1], args[2])
    [] op = "get_current_cash_balance" ->
         IF self.month_columns = <<>> THEN <<>> ELSE <<StrMax(self.month_columns)>>
    [] op = "get_average_burn_rate" -> LastN(self.month_columns, BurnMonths)
    [] op = "get_cash_runway" ->
         CashMonths(self, "get_current_cash_balance", args)
           \o CashMonths(self, "get_average_burn_rate", args)
    [] op = "_convert_to_usd" -> IF args[1] = "cash" THEN <<args[2]>> ELSE <<>>
    [] op = "process_query" ->
         Concat([i \in 1..Len(ProcessQuery(self, args[1]).calls) |->
                   CashMonths(self, ProcessQuery(self, args[1]).calls[i].op,
                              <<ProcessQuery(self, args[1]).calls[i].start_month,
                                ProcessQuery(self, args[1]).calls[i].end_month>>)])
    [] OTHER -> <<>>

\* self.cash after the conversions of the months, one after the other.
RECURSIVE CashAfter(_, _, _)
CashAfter(self, cash_df, months) ==
  IF months = <<>> THEN cash_df
  ELSE CashAfter(self, LeftByConvert(self.fx, self.month_columns, cash_df, months[1]),
                 Tail(months))

\* What a call returns or raises when nothing else runs; an Optional result
\* is returned as it is.
CallAlone(self, op, args) ==
  CASE op = "get_revenue_vs_budget" -> GetRevenueVsBudget(self, args[1], args[2])
    [] op = "get_revenue_trend" -> GetRevenueTrend(self, args[1], args[2])
    [] op = "get_gross_margin_trend" -> GetGrossMarginTrend(self, args[1], args[2])
    [] op = "get_cash_trend" -> GetCashTrend(self, args[1], args[2])
    [] op = "get_opex_breakdown" -> GetOpexBreakdown(self, args[1])
    [] op = "get_ebitda" -> Ok(GetEbitda(self, args[1]))
    [] op = "_convert_to_usd" ->
         ConvertToUsd(self.fx, self.month_columns, self[args[1]], args[2])
    [] op = "get_cash_runway" -> Ok(GetCashRunway(self))
    [] op = "get_current_cash_balance" -> Ok(GetCurrentCashBalance(self))
    [] op = "get_average_burn_rate" -> Ok(GetAverageBurnRate(self, BurnMonths))
    [] op = "process_query" -> Ok(ProcessQuery(self, args[1]).response)

\* The frames an operation with a loop filters before the loop.
FilteredFrames(self, op) ==
  CASE op = "get_revenue_vs_budget" ->
         <<FilterAccounts(self.actuals, PatRevenue, TRUE),
           FilterAccounts(self.budget, PatRevenue, TRUE)>>
    [] op = "get_revenue_trend" -> <<FilterAccounts(self.actuals, PatRevenue, TRUE)>>
    [] op = "get_gross_margin_trend" ->
         <<FilterAccounts(self.actuals, PatRevenue, TRUE),
           FilterAccounts(self.actuals, PatCogs, TRUE)>>
    [] op = "get_cash_trend" -> <<>>

\* One turn of the loop of an operation, on the frames it filtered.
LoopRow(self, op, frames, month) ==
  CASE op = "get_revenue_vs_budget" ->
         RevenueVsBudgetRow(month,
           ConvertToUsd(self.fx, self.month_columns, frames[1].v, month),
           ConvertToUsd(self.fx, self.month_columns, frames[2].v, month))
    [] op = "get_revenue_trend" ->
         RevenueTrendRow(month,
           ConvertToUsd(self.fx, self.month_columns, frames[1].v, month))
    [] op = "get_gross_margin_trend" ->
         GrossMarginRow(month,
           ConvertToUsd(self.fx, self.month_columns, frames[1].v, month),
           ConvertToUsd(self.fx, self.month_columns, frames[2].v, month))
    [] op = "get_cash_trend" ->
         CashTrendRow(month,
           ConvertToUsd(self.fx, self.month_columns, self.cash, month))

\* A caller that has no call in flight.
Idle == [pc |-> "idle"]

\* A call that has returned or raised.
Done(op, args, result) == [pc |-> "done", op |-> op, args |-> args, result |-> result]

\* A caller calls an operation: one with a loop filters its frames and enters the
\* loop, every other runs to its end.
Begin(t, op, args) ==
  /\ phase = "idle"
  /\ threads[t].pc = "idle"
  /\ IF op \in Operations.loop
     THEN /\ threads' = [threads EXCEPT ![t] =
               IF \E i \in 1..Len(FilteredFrames(Tools, op)) : ~FilteredFrames(Tools, op)[i].ok
               THEN Done(op, args, Collect(FilteredFrames(Tools, op)))
               ELSE [pc |-> "loop", op |-> op, args |-> args,
                     frames |-> FilteredFrames(Tools, op),
                     months |-> MonthsBetween(month_columns, args[1], args[2]),
                     rows |-> <<>>]]
          /\ cash' = cash
     ELSE /\ threads' = [threads EXCEPT ![t] = Done(op, args, CallAlone(Tools, op, args))]
          /\ cash' = CashAfter(Tools, cash, CashMonths(Tools, op, args))
  /\ UNCHANGED <<actuals, budget, fx, month_columns, phase, query, intent, params,
                 response, calls, escaped, range_call>>

\* One turn of the loop of a call: the row of the next month, from the session
\* tables as they are now; an exception ends the call.
Step(t) ==
  /\ threads[t].pc = "loop"
  /\ threads[t].months # <<>>
  /\ \E row \in {LoopRow(Tools, threads[t].op, threads[t].frames, threads[t].months[1])} :
       threads' = [threads EXCEPT ![t] =
         IF ~row.ok THEN Done(threads[t].op, threads[t].args, row)
         ELSE [@ EXCEPT !.months = Tail(@), !.rows = Append(@, row.v)]]
  /\ cash' = CashAfter(Tools, cash,
                       IF threads[t].op = "get_cash_trend" THEN <<threads[t].months[1]>>
                       ELSE <<>>)
  /\ UNCHANGED <<actuals, budget, fx, month_columns, phase, query, intent, params,
                 response, calls, escaped, range_call>>

\* return pd.DataFrame(results)
Return(t) ==
  /\ threads[t].pc = "loop"
  /\ threads[t].months = <<>>
  /\ threads' = [threads EXCEPT ![t] = Done(@.op, @.args, Ok(@.rows))]
  /\ UNCHANGED <<actuals, budget, fx, cash, month_columns, phase, query, intent, params,
                 response, calls, escaped, range_call>>

\* The caller is done with the result and may call again.
Forget(t) ==
  /\ threads[t].pc = "done"
  /\ threads' = [threads EXCEPT ![t] = Idle]
  /\ UNCHANGED <<actuals, budget, fx, cash, month_columns, phase, query, intent, params,
                 response, calls, escaped, range_call>>

\* A session on one of the data sets, with the callers ts; phase is "failed" when
\* the constructor raised and there is no session to call.
InitCallers(data, ts) ==
  /\ \E d \in data :
       \/ Construct(d) /\ phase = "idle"
       \/ /\ ~PreprocessData(d, MonthColumnsOf(d.actuals)).ok
          /\ actuals = d.actuals /\ budget = d.budget /\ fx = d.fx /\ cash = d.cash
          /\ month_columns = MonthColumnsOf(d.actuals)
          /\ phase = "failed"
  /\ NoAnswer
  /\ range_call = [months_back |-> 0, end_month |-> None, result |-> None]
  /\ threads = [t \in ts |-> Idle]

NextCall ==
  \/ \E t \in DOMAIN threads : \E kind \in DOMAIN Operations :
       \E op \in Operations[kind] : \E args \in Arguments(Tools, kind) : Begin(t, op, args)
  \/ \E t \in DOMAIN threads : Step(t)
  \/ \E t \in DOMAIN threads : Return(t)
  \/ \E t \in DOMAIN threads : Forget(t)

\* One caller, one call after the other.
SpecTools == InitCallers(ToolDataSets, {"a"}) /\ [][NextCall]_vars

\* Two callers on one session, their steps interleaved.
SpecConcurrent ==
  InitCallers({DataThreeMonths, DataSignedAmounts}, {"a", "b"}) /\ [][NextCall]_vars
(***************************************************************************)
(* The scenarios of the cash operations, of the EBITDA and of the OpEx     *)
(* breakdown, called directly and asked for with one phrase.               *)
(***************************************************************************)

\* Sessions on the months 2025-04..06 with the cash of: the scenario 5,000 /
\* 4,800 / 4,600 (in thousands); two entities; a balance that ends at 0; an
\* overdraft; a growing balance; a month 2025-07 the actuals do not have; no rows.
\* Then months out of order with a 'Cost of Sales' account, amounts of both
\* signs, and the three OpEx accounts of the scenario for 2025-06.
ScenarioDataSets ==
  LET m == <<<<"2","0","2","5","-","0","4">>, <<"2","0","2","5","-","0","5">>, <<"2","0","2","5","-","0","6">>>>
      Entity(name, months, amounts) == WideRow((<<"e","n","t","i","t","y">> :> name), months, amounts)
      Cash(rows) == [DataThreeMonths EXCEPT !.cash = Frame(<<<<"e","n","t","i","t","y">>>>, m, rows)]
  IN {DataThreeMonths,
      Cash(<<Entity(<<"P","a","r","e","n","t","C","o">>, m, <<600, 500, 400>>), Entity(<<"E","M","E","A">>, m, <<400, 400, 400>>)>>),
      Cash(<<Entity(<<"C","o","n","s","o","l","i","d","a","t","e","d">>, m, <<400, 200, 0>>)>>),
      Cash(<<Entity(<<"C","o","n","s","o","l","i","d","a","t","e","d">>, m, <<100, -100, -300>>)>>),
      Cash(<<Entity(<<"C","o","n","s","o","l","i","d","a","t","e","d">>, m, <<100, 200, 300>>)>>),
      [DataThreeMonths EXCEPT !.cash =
         Frame(<<<<"e","n","t","i","t","y">>>>, m \o <<<<"2","0","2","5","-","0","7">>>>,
               <<Entity(<<"C","o","n","s","o","l","i","d","a","t","e","d">>, m \o <<<<"2","0","2","5","-","0","7">>>>, <<5000, 4800, 4600, 4400>>)>>)],
      Cash(<<>>),
      DataMixedYears,
      DataSignedAmounts,
      [DataThreeMonths EXCEPT !.actuals = Frame(<<ColAccount, ColCurrency>>, m, <<
         WideRow(Account(<<"R","e","v","e","n","u","e">>, Usd), m, <<700, 750, 800>>),
         WideRow(Account(<<"C","O","G","S">>, Usd), m, <<300, 310, 320>>),
         WideRow(Account(<<"O","p","e","x",":","M","a","r","k","e","t","i","n","g">>, Usd), m, <<90, 95, 100>>),
         WideRow(Account(<<"O","p","e","x",":","S","a","l","e","s">>, Usd), m, <<70, 75, 80>>),
         WideRow(Account(<<"O","p","e","x",":","R","&","D">>, Usd), m, <<110, 115, 120>>) >>)]}

\* One caller of the operations on a scenario, one call after the other.
SpecScenarios == InitCallers(ScenarioDataSets, {"a"}) /\ [][NextCall]_vars

\* str.upper(): the letters a..z move to A..Z, every other character stays.
Upper(s) ==
  [i \in 1..Len(s) |->
     IF Ord["a"] <= Ord[s[i]] /\ Ord[s[i]] <= Ord["z"]
     THEN Ascii[Ord[s[i]] - (Ord["a"] - Ord["A"])]
     ELSE s[i]]

\* The queries of one phrase, and one for the revenue trend, which no phrase of
\* the vocabulary asks for alone: as written, in upper and in lower case.
PhraseQueries ==
  UNION {{q, Upper(q), Lower(q)} :
           q \in {Vocabulary[i] : i \in 1..Len(Vocabulary)}
                   \cup {<<"S","h","o","w"," ","R","e","v","e","n","u","e"," ","f","o","r"," ","t","h","e"," ","l","a","s","t"," ","3"," ","m","o","n","t","h","s">>}}

NextPhrase ==
  \/ \E q \in PhraseQueries : HandleQuery(q)
  \/ Rerun

\* A session on a scenario, asked one phrase after the other.
SpecPhrases == InitCallers(ScenarioDataSets, {}) /\ [][NextPhrase]_vars


(***************************************************************************)
(* The claims about the router and the classifier                          *)
(***************************************************************************)

\* C1: for every query and every session data set, process_query returns a
\* non-empty string and no exception escapes to its caller.
ProcessQueryAlwaysAnswers ==
  phase = "answered" =>
    /\ ~escaped
    /\ \E i \in 1..Len(response) : response[i].k = "text" /\ response[i].s # ""

\* A query was answered although an operation raised on the way.
AnsweredAfterAnException ==
  /\ phase = "answered"
  /\ ~escaped
  /\ \E i \in 1..Len(response) : response[i].k = "exception"

\* The order of the intent groups, as the claim lists it.
GroupOrder == <<"revenue_vs_budget", "revenue_trend", "gross_margin", "opex_breakdown",
                "cash_runway", "cash_trend", "ebitda">>

\* Some pattern of the group called name matches q.
GroupNamedMatches(name, q) ==
  \E g \in 1..Len(IntentPatterns) : IntentPatterns[g].intent = name /\ GroupMatches(g, q)

\* No pattern of any of the seven groups matches q.
NoGroupMatches(q) == \A n \in 1..Len(GroupOrder) : ~GroupNamedMatches(GroupOrder[n], q)

\* i is the first group of the order with a pattern that matches q, or 'general'
\* when there is none.
IsFirstMatch(i, q) ==
  \/ i = "general" /\ NoGroupMatches(q)
  \/ \E n \in 1..Len(GroupOrder) :
       /\ i = GroupOrder[n]
       /\ GroupNamedMatches(GroupOrder[n], q)
       /\ \A m \in 1..(n - 1) : ~GroupNamedMatches(GroupOrder[m], q)

\* C2: classify_intent returns the first group, in the order revenue_vs_budget,
\* revenue_trend, gross_margin, opex_breakdown, cash_runway, cash_trend, ebitda,
\* that has a matching pattern.
FirstMatchingGroupWins ==
  (phase = "answered" /\ query # NotAString) => IsFirstMatch(intent, Lower(query))

\* A query that matches revenue_vs_budget and gross_margin was classified.
RevenueVsBudgetBeatsMargin ==
  /\ phase = "answered"
  /\ query # NotAString
  /\ intent = "revenue_vs_budget"
  /\ GroupNamedMatches("gross_margin", Lower(query))

\* A month name occurs in q, as the extraction finds it: anywhere in the text.
NamesAMonth(q) == \E n \in 1..Len(MonthNames) : Contains(q, MonthNames[n].name)

\* One of the relative-period phrases occurs in q.
HasPeriodPhrase(q) ==
  \/ Search(PatLast3, q) \/ Search(PatLast6, q) \/ Search(PatLastMonth, q)
  \/ Search(PatThisMonth, q) \/ Search(PatYtd, q) \/ Search(PatQuarter, q)

\* One of the phrases that give a period occurs in q: each of them but the word
\* 'quarter' without a number.
SetsAPeriod(q) ==
  \/ Search(PatLast3, q) \/ Search(PatLast6, q) \/ Search(PatLastMonth, q)
  \/ Search(PatThisMonth, q) \/ Search(PatYtd, q) \/ Search(PatQuarterNumber, q)

\* The default params: the planner's latest month and no period.
IsDefault(p, latest_month) ==
  DOMAIN p = {"specific_month"} /\ p["specific_month"] = latest_month

UnmatchedParams(p, named, period, latest_month) ==
  /\ (~named /\ ~period) => IsDefault(p, latest_month)
  /\ named => "specific_month" \in DOMAIN p
  /\ period => "period" \in DOMAIN p

ExactlyOneTimeParam ==
  (phase = "answered" /\ query # NotAString) =>
    /\ ("specific_month" \in DOMAIN params) # ("period" \in DOMAIN params)
    /\ (~NamesAMonth(Lower(query)) /\ ~HasPeriodPhrase(Lower(query))) =>
         params["specific_month"] = GetLatestMonth(month_columns)

\* What the keys of the params are, from what the query holds.
TimeParamsOf(p, named, period, latest_month) ==
  /\ DOMAIN p \subseteq {"specific_month", "period"}
  /\ DOMAIN p # {}
  /\ ("period" \in DOMAIN p) <=> period
  /\ ("specific_month" \in DOMAIN p) <=> (named \/ ~period)
  /\ (~named /\ ~period) => p["specific_month"] = latest_month

\* C4: the params hold at least one of specific_month and period: period when a
\* phrase of the query gives one, specific_month when the query has a month name
\* or no period, hence both for a month name with a period; with neither,
\* specific_month is the planner's latest month.
TimeParamsFollowTheQuery ==
  (phase = "answered" /\ query # NotAString) =>
    TimeParamsOf(params, NamesAMonth(Lower(query)), SetsAPeriod(Lower(query)),
                 GetLatestMonth(month_columns))

\* A query with a month name and a period got both params.
MonthAndPeriodBothSet ==
  /\ phase = "answered"
  /\ query # NotAString
  /\ NamesAMonth(Lower(query))
  /\ SetsAPeriod(Lower(query))
  /\ DOMAIN params = {"specific_month", "period"}

\* The words of s from position i on, word being the one that has begun.
RECURSIVE WordsFrom(_, _, _)
WordsFrom(s, i, word) ==
  IF i > Len(s) THEN <<word>>
  ELSE IF s[i] = " " THEN <<word>> \o WordsFrom(s, i + 1, <<>>)
  ELSE WordsFrom(s, i + 1, Append(word, s[i]))

\* The numbers of the months that q names by a word of its own.
MonthsNamed(q) ==
  {MonthNames[n].num : n \in {n \in 1..Len(MonthNames) :
     \E w \in 1..Len(WordsFrom(q, 1, <<>>)) : WordsFrom(q, 1, <<>>)[w] = MonthNames[n].name}}

\* C5, as stated: a query that names one month and no other gets specific_month
\* '<year>-<MM>' for that month, whatever other words it holds.
NamedMonthIsExtracted ==
  (phase = "answered" /\ query # NotAString
     /\ Cardinality(MonthsNamed(Lower(query))) = 1) =>
    /\ "specific_month" \in DOMAIN params
    /\ \E mm \in MonthsNamed(Lower(query)) :
         params["specific_month"] = YearOf(Lower(query)) \o <<"-">> \o mm

\* The relative-period phrases in the order of the claim, each with the periods
\* it may give.
PeriodPhrases == <<
  [pattern |-> PatLast3, periods |-> {"last_3_months"}],
  [pattern |-> PatLast6, periods |-> {"last_6_months"}],
  [pattern |-> PatLastMonth, periods |-> {"last_month"}],
  [pattern |-> PatThisMonth, periods |-> {"current_month"}],
  [pattern |-> PatYtd, periods |-> {"ytd"}],
  [pattern |-> PatQuarter, periods |-> {"q1", "q2", "q3", "q4"}] >>

\* C6, as stated: the first relative-period phrase that matches, in the order
\* last 3 months, last 6 months, last month, this month, year to date, quarter,
\* always sets period.
FirstPeriodPhraseSetsPeriod ==
  (phase = "answered" /\ query # NotAString) =>
    \A k \in 1..Len(PeriodPhrases) :
      (/\ Search(PeriodPhrases[k].pattern, Lower(query))
       /\ \A j \in 1..(k - 1) : ~Search(PeriodPhrases[j].pattern, Lower(query))) =>
        /\ "period" \in DOMAIN params
        /\ params["period"] \in PeriodPhrases[k].periods

\* C7, as stated: with both specific_month and period in the params, each of the
\* six handlers that read the params calls its aggregation for the window
\* [specific_month, specific_month].
SpecificMonthBeatsPeriod ==
  (/\ phase = "answered"
   /\ DOMAIN params = {"specific_month", "period"}
   /\ intent \in {"revenue_vs_budget", "revenue_trend", "gross_margin",
                  "opex_breakdown", "cash_trend", "ebitda"}) =>
    \A i \in 1..Len(calls) :
      /\ calls[i].start_month = params["specific_month"]
      /\ calls[i].end_month = params["specific_month"]

\* The months since year 0 of the month m of the year y.
MonthIndex(y, m) == 12 * y + (m - 1)

\* 'YYYY-MM' for a number of months since year 0, the month on two digits.
YearMonth(idx) ==
  NatToStr(idx \div 12) \o <<"-">>
    \o <<Digits[(((idx % 12) + 1) \div 10) + 1], Digits[(((idx % 12) + 1) % 10) + 1]>>

\* The end month of the call: the one passed, or the latest month.
EndOfRange == 
  IF range_call.end_month.some THEN range_call.end_month.v
  ELSE GetLatestMonth(month_columns)

\* C8: for N >= 1 and a latest month L, the window of the last N months is
\* (L minus N-1 calendar months, L), across year boundaries too, and its start
\* is a zero-padded YYYY-MM string.
LastMonthsWindow ==
  range_call.result.some =>
    \E y \in FirstYear..LastYear : \E m \in 1..12 :
      /\ EndOfRange = YearMonth(MonthIndex(y, m))
      /\ range_call.result.v =
           Ok([start_month |-> YearMonth(MonthIndex(y, m) - (range_call.months_back - 1)),
               end_month |-> EndOfRange])
      /\ Len(range_call.result.v.v.start_month) = 7

\* The last 6 months that end in March 2025 begin in October 2024.
WindowAcrossTheYear ==
  /\ range_call.result.some
  /\ range_call.months_back = 6
  /\ range_call.end_month = Some(<<"2","0","2","5","-","0","3">>)
  /\ range_call.result.v = Ok([start_month |-> <<"2","0","2","4","-","1","0">>, end_month |-> <<"2","0","2","5","-","0","3">>])

\* C9, as stated: a trend-style handler whose params have no period, or one it
\* does not know, uses the 6 months that end at the latest month.
TrendFallbackIsSixMonths ==
  (/\ phase = "answered"
   /\ intent \in {"revenue_trend", "gross_margin", "cash_trend"}
   /\ DictGet(params, "period", "") \notin {"last_3_months", "last_6_months"}
   /\ calls # <<>>
   /\ CalculateMonthRange(GetLatestMonth(month_columns), 6, None).ok) =>
    /\ calls[1].start_month =
         CalculateMonthRange(GetLatestMonth(month_columns), 6, None).v.start_month
    /\ calls[1].end_month = GetLatestMonth(month_columns)

\* The columns of the actuals that are months, of whatever year.
MonthsOfActuals ==
  LET IsMonth(col) == Len(col) = 7 /\ Strptime(col).ok IN SelectSeq(actuals.columns, IsMonth)

\* C10, as stated: the latest month a query defaults to is the maximum of all the
\* months of the actuals, whatever their year and order, and the fallback month
\* when the actuals have none.
LatestIsMaxOfAllMonths ==
  (/\ phase = "answered"
   /\ query # NotAString
   /\ ~NamesAMonth(Lower(query))
   /\ ~HasPeriodPhrase(Lower(query))) =>
    params["specific_month"] = (IF MonthsOfActuals # <<>> THEN StrMax(MonthsOfActuals)
                                ELSE FallbackMonth)

(***************************************************************************)
(* The claims about faults and missing data                                *)
(***************************************************************************)

\* The frame lacks a month column that the session took from the actuals.
LacksAMonth(df) == \E i \in 1..Len(month_columns) : ~InList(df.columns, month_columns[i])

\* C11, as stated: when the budget, the FX table or the cash data lacks a month
\* that the actuals have, constructing FinancialTools succeeds and no call on the
\* session raises.
MissingMonthIsNoError ==
  (LacksAMonth(budget) \/ LacksAMonth(fx) \/ LacksAMonth(cash)) =>
    /\ phase # "failed"
    /\ \A t \in DOMAIN threads : threads[t].pc = "done" => threads[t].result.ok

\* C12, as stated: no aggregation operation lets an exception reach its caller.
AggregationsCatchTheirFaults ==
  \A t \in DOMAIN threads :
    (/\ threads[t].pc = "done"
     /\ threads[t].op \in Operations.loop \cup Operations.month \cup Operations.session) =>
      threads[t].result.ok

\* C13, as stated: a fault during a process_query call is reported by the
\* router's apology and by no other text.
FaultsGetTheApology ==
  phase = "answered" =>
    \A i \in 1..Len(response) :
      response[i].k = "exception" => response = Apology(response[i].v)

\* The result of a call is no data: an empty table, or None.
IsNoData(op, result) ==
  /\ result.ok
  /\ IF op \in Operations.session \cup {"get_ebitda"} THEN ~result.v.some
     ELSE result.v = <<>>

\* The calls of the handler found no data.
HandlerFoundNoData ==
  /\ calls # <<>>
  /\ \A i \in 1..Len(calls) :
       IsNoData(calls[i].op,
                CallAlone(Tools, calls[i].op, <<calls[i].start_month, calls[i].end_month>>))

\* The "no data" sentences of the handlers.
NoDataSentences ==
  {"No revenue data found for ", "No revenue trend data available.",
   "No gross margin data available.", "No operating expense data found for ",
   "No cash trend data available.", "No EBITDA data available for "}

\* C14, as stated: a handler whose month or window has no data answers with a
\* plain "no data" sentence.
NoDataGetsASentence ==
  (phase = "answered" /\ intent # "general" /\ intent # "" /\ HandlerFoundNoData) =>
    /\ response # <<>>
    /\ response[1].k = "text"
    /\ response[1].s \in NoDataSentences

(***************************************************************************)
(* The claims about the aggregates                                         *)
(***************************************************************************)

\* The caller t has the result of a call of op that did not raise.
Returned(t, op) ==
  threads[t].pc = "done" /\ threads[t].op = op /\ threads[t].result.ok

\* The greatest common divisor of two naturals, not both 0.
RECURSIVE CommonDivisor(_, _)
CommonDivisor(a, b) == IF b = 0 THEN a ELSE CommonDivisor(b, a % b)

\* A quotient in lowest terms, with a positive denominator.
LowestTerms(num, den) ==
  [num |-> (IF den < 0 THEN 0 - num ELSE num) \div CommonDivisor(Abs(num), Abs(den)),
   den |-> Abs(den) \div CommonDivisor(Abs(num), Abs(den))]

\* pct = num / den * 100, for a float pct held as a quotient and den not 0.
IsPercentOf(pct, num, den) == LowestTerms(pct.num, pct.den) = LowestTerms(100 * num, den)

\* C15, as stated: every row of get_revenue_vs_budget has variance_usd =
\* actual_usd - budget_usd, variance_pct = variance_usd / budget_usd * 100 when
\* budget_usd is not 0, negative or not, and variance_pct = 0 when it is 0.
VarianceOfEveryRow ==
  \A t \in DOMAIN threads : Returned(t, "get_revenue_vs_budget") =>
    \A i \in 1..Len(threads[t].result.v) :
      /\ threads[t].result.v[i].variance_usd =
           threads[t].result.v[i].actual_usd - threads[t].result.v[i].budget_usd
      /\ threads[t].result.v[i].budget_usd # 0 =>
           IsPercentOf(threads[t].result.v[i].variance_pct,
                       threads[t].result.v[i].variance_usd,
                       threads[t].result.v[i].budget_usd)
      /\ threads[t].result.v[i].budget_usd = 0 =>
           threads[t].result.v[i].variance_pct.num = 0

\* C16, as stated: every row of get_gross_margin_trend has gross_margin_pct =
\* (revenue_usd - cogs_usd) / revenue_usd * 100 when revenue_usd is not 0,
\* negative or not, and gross_margin_pct = 0 when it is 0.
MarginOfEveryRow ==
  \A t \in DOMAIN threads : Returned(t, "get_gross_margin_trend") =>
    \A i \in 1..Len(threads[t].result.v) :
      /\ threads[t].result.v[i].revenue_usd # 0 =>
           IsPercentOf(threads[t].result.v[i].gross_margin_pct,
                       threads[t].result.v[i].revenue_usd - threads[t].result.v[i].cogs_usd,
                       threads[t].result.v[i].revenue_usd)
      /\ threads[t].result.v[i].revenue_usd = 0 =>
           threads[t].result.v[i].gross_margin_pct.num = 0

\* C17: for every month with data, the dict of get_ebitda has ebitda = revenue -
\* cogs - opex, for the revenue, cogs and opex of the same dict.
EbitdaIsRevenueLessCosts ==
  \A t \in DOMAIN threads :
    (Returned(t, "get_ebitda") /\ threads[t].result.v.some) =>
      threads[t].result.v.v.ebitda =
        threads[t].result.v.v.revenue - threads[t].result.v.v.cogs - threads[t].result.v.v.opex

\* get_ebitda returned a dict with revenue, cogs and opex, none of them 0.
EbitdaOfAFullMonth ==
  \E t \in DOMAIN threads :
    /\ Returned(t, "get_ebitda")
    /\ threads[t].result.v.some
    /\ threads[t].result.v.v.revenue # 0
    /\ threads[t].result.v.v.cogs # 0
    /\ threads[t].result.v.v.opex # 0

\* The rates the FX table holds for a currency and a month.
TableRates(currency, month) ==
  {fx.rows[i][month] : i \in {j \in 1..Len(fx.rows) :
     /\ ColCurrency \in DOMAIN fx.rows[j]
     /\ month \in DOMAIN fx.rows[j]
     /\ fx.rows[j][ColCurrency] = currency}}

\* The currency of a row: USD when the frame has no currency.
CurrencyOf(row) == IF ColCurrency \in DOMAIN row THEN row[ColCurrency] ELSE Usd

\* The rate of a currency and a month, in hundredths: 1.0 for USD and for a pair
\* without a rate in the table, and, when zero_is_none, for a rate of 0.
RateFor(currency, month, zero_is_none) ==
  IF currency = Usd \/ TableRates(currency, month) = {} THEN 100
  ELSE IF zero_is_none /\ TableRates(currency, month) = {0} THEN 100
  ELSE CHOOSE r \in TableRates(currency, month) : TRUE

\* The call of _convert_to_usd on a session table that t made did not raise, and
\* gave every row amount * rate, in the column it adds for a month of the
\* session that the table has.
ConvertedAtRate(t, zero_is_none) ==
  /\ threads[t].result.ok
  /\ (/\ InList(month_columns, threads[t].args[2])
      /\ InList(Tools[threads[t].args[1]].columns, threads[t].args[2])
      /\ Tools[threads[t].args[1]].rows # <<>>) =>
       InList(threads[t].result.v.columns, threads[t].args[2] \o UsdSuffix)
  /\ InList(threads[t].result.v.columns, threads[t].args[2] \o UsdSuffix) =>
       \A i \in 1..Len(threads[t].result.v.rows) :
         threads[t].result.v.rows[i][threads[t].args[2] \o UsdSuffix] =
           Tools[threads[t].args[1]].rows[i][threads[t].args[2]]
             * RateFor(CurrencyOf(Tools[threads[t].args[1]].rows[i]), threads[t].args[2],
                       zero_is_none)

\* C18, as stated: amount_usd = amount * rate for every row, the rate being the
\* one of the FX table for the row's month and currency, and 1.0 when the table
\* has none or the currency is USD; an unknown currency does not raise.
ConvertedAtTheTableRate ==
  \A t \in DOMAIN threads :
    (threads[t].pc = "done" /\ threads[t].op = "_convert_to_usd") =>
      ConvertedAtRate(t, FALSE)

\* C18: amount_usd = amount * rate for every row, the rate being the one of the
\* FX table for the row's month and currency, and 1.0 when the table has none,
\* when the rate it has is 0, or when the currency is USD; an unknown currency
\* does not raise.
ConvertedAtTheUsableRate ==
  \A t \in DOMAIN threads :
    (threads[t].pc = "done" /\ threads[t].op = "_convert_to_usd") =>
      ConvertedAtRate(t, TRUE)

\* A table with amounts in EUR at a rate that is not 1.0 and in a currency the FX
\* table does not know was converted.
ConvertedKnownAndUnknown ==
  \E t \in DOMAIN threads :
    /\ Returned(t, "_convert_to_usd")
    /\ InList(threads[t].result.v.columns, threads[t].args[2] \o UsdSuffix)
    /\ \E i \in 1..Len(threads[t].result.v.rows) :
         /\ threads[t].result.v.rows[i][threads[t].args[2]] # 0
         /\ TableRates(CurrencyOf(threads[t].result.v.rows[i]), threads[t].args[2])
              \notin {{}, {0}, {100}}
    /\ \E i \in 1..Len(threads[t].result.v.rows) :
         /\ threads[t].result.v.rows[i][threads[t].args[2]] # 0
         /\ CurrencyOf(threads[t].result.v.rows[i]) # Usd
         /\ TableRates(CurrencyOf(threads[t].result.v.rows[i]), threads[t].args[2]) = {}

(***************************************************************************)
(* The claims about the session tables                                     *)
(***************************************************************************)

\* Every call that is over returned or raised what the same call does on the
\* session tables as they are now, with nothing else running.
ResultsAsAlone ==
  \A t \in DOMAIN threads :
    threads[t].pc = "done" =>
      threads[t].result = CallAlone(Tools, threads[t].op, threads[t].args)

\* C19: no step of any sequence of aggregation calls and process_query calls
\* changes the session tables or the month set, so they stay what they were after
\* construction, and every call of the sequence gives the result that the same
\* call with the same arguments gives at any other point.
SessionTablesNeverChange ==
  /\ [][UNCHANGED <<actuals, budget, fx, cash, month_columns>>]_vars
  /\ []ResultsAsAlone

\* A cash trend with rows was returned: self.cash went through _convert_to_usd
\* once for every month of it, after earlier calls or not.
CashTrendReturned ==
  \E t \in DOMAIN threads :
    /\ Returned(t, "get_cash_trend")
    /\ Len(threads[t].result.v) > 1
    /\ cash.rows # <<>>

\* The steps of the callers other than t leave t where it is.
OthersLeave(t) ==
  \A u \in DOMAIN threads \ {t} : threads'[u] # threads[u] => threads'[t] = threads[t]

\* C20: with several callers on one session and no lock, under every
\* interleaving of their steps no call writes to a session table, and every call
\* returns what it returns when run alone.
InterleavedCallsAsAlone ==
  /\ [][/\ UNCHANGED <<actuals, budget, fx, cash, month_columns>>
        /\ \A t \in DOMAIN threads : OthersLeave(t)]_vars
  /\ [](\A t \in DOMAIN threads :
          threads[t].pc = "done" =>
            threads[t].result = CallAlone(Tools, threads[t].op, threads[t].args))

\* Two callers are in the loops of their calls at once, both past the first
\* month, one of them in the loop that converts self.cash.
TwoCallsInTheirLoops ==
  \E t, u \in DOMAIN threads :
    /\ t # u
    /\ threads[t].pc = "loop" /\ threads[u].pc = "loop"
    /\ threads[t].op = "get_cash_trend"
    /\ threads[t].rows # <<>> /\ threads[t].months # <<>>
    /\ threads[u].rows # <<>> /\ threads[u].months # <<>>

(***************************************************************************)
(* The claims about the cash operations                                    *)
(***************************************************************************)

\* Two floats held as quotients are the same number.
SameNumber(a, b) == LowestTerms(a.num, a.den) = LowestTerms(b.num, b.den)

\* C21, as stated: get_cash_runway returns current_cash / |average burn| whenever
\* the current cash is available, a balance of 0 included, and the average burn
\* of 3 months is negative, and None exactly when the burn is >= 0 or the burn or
\* the current cash is unavailable.
RunwayWheneverCashIsKnown ==
  \A t \in DOMAIN threads : Returned(t, "get_cash_runway") =>
    IF /\ GetCurrentCashBalance(Tools).some
       /\ GetAverageBurnRate(Tools, 3).some
       /\ GetAverageBurnRate(Tools, 3).v.num < 0
    THEN /\ threads[t].result.v.some
         /\ SameNumber(threads[t].result.v.v,
                       [num |-> GetCurrentCashBalance(Tools).v * GetAverageBurnRate(Tools, 3).v.den,
                        den |-> 0 - GetAverageBurnRate(Tools, 3).v.num])
    ELSE ~threads[t].result.v.some

\* C22, as stated: a runway that get_cash_runway returns is a strictly positive
\* number of months.
RunwayIsPositive ==
  \A t \in DOMAIN threads :
    (Returned(t, "get_cash_runway") /\ threads[t].result.v.some) =>
      \/ threads[t].result.v.v.num > 0 /\ threads[t].result.v.v.den > 0
      \/ threads[t].result.v.v.num < 0 /\ threads[t].result.v.v.den < 0

\* The months of the cash data, in chronological order: the columns of the cash
\* table that are a year and a month, when it has rows.
CashDataMonths ==
  IF cash.rows = <<>> THEN <<>>
  ELSE SortStrings({cash.columns[i] : i \in {j \in 1..Len(cash.columns) :
                                              Strptime(cash.columns[j]).ok}})

\* The balance of a month of the cash data, over all entities.
Consolidated(month) == SumSeq([i \in 1..Len(cash.rows) |-> cash.rows[i][month]]) * 100

\* C23, as stated: get_current_cash_balance returns the sum over all entities of
\* the balance of the latest month of the cash data, also when that month is
\* later than the latest month of the actuals, and None when the cash data is empty.
CurrentCashIsLatestOfCashData ==
  \A t \in DOMAIN threads : Returned(t, "get_current_cash_balance") =>
    IF CashDataMonths = <<>> THEN ~threads[t].result.v.some
    ELSE /\ threads[t].result.v.some
         /\ threads[t].result.v.v = Consolidated(CashDataMonths[Len(CashDataMonths)])

\* C24, as stated: get_average_burn_rate(N) returns the mean of the successive
\* differences of the consolidated balances of the chronologically last N months
\* of the cash data, in chronological order whatever the order of the input, and
\* None exactly when the cash data has fewer than 2 months.
BurnIsChronological ==
  \A t \in DOMAIN threads : Returned(t, "get_average_burn_rate") =>
    IF Len(CashDataMonths) < 2 THEN ~threads[t].result.v.some
    ELSE /\ threads[t].result.v.some
         /\ SameNumber(threads[t].result.v.v,
              [num |-> SumSeq([i \in 1..(Len(LastN(CashDataMonths, BurnMonths)) - 1) |->
                                 Consolidated(LastN(CashDataMonths, BurnMonths)[i + 1])
                                   - Consolidated(LastN(CashDataMonths, BurnMonths)[i])]),
               den |-> Len(LastN(CashDataMonths, BurnMonths)) - 1])

(***************************************************************************)
(* The claims about the OpEx breakdown and the parts of the EBITDA         *)
(***************************************************************************)

\* The OpEx subcategories with an amount in a month: the account labels of the
\* form 'Opex:<subcategory>'.
OpexSubcategories(month) ==
  {actuals.rows[i][ColAccount] : i \in {j \in 1..Len(actuals.rows) :
     /\ StartsWith(actuals.rows[j][ColAccount], <<"O","p","e","x",":">>)
     /\ actuals.rows[j][month] # 0}}

\* The amount of a month, in USD, of the actuals rows that satisfy Counts.
UsdOfRows(month, Counts(_)) ==
  SumSeq([i \in 1..Len(actuals.rows) |->
            IF Counts(actuals.rows[i])
            THEN actuals.rows[i][month] * RateFor(CurrencyOf(actuals.rows[i]), month, TRUE)
            ELSE 0])

\* C25, as stated: get_opex_breakdown(month) returns one row per distinct OpEx
\* subcategory that has rows in the month, with amount_usd the sum of the USD
\* amounts of the subcategory; Opex:Marketing, Opex:Sales and Opex:R&D give 3 rows.
OneRowPerSubcategory ==
  \A t \in DOMAIN threads :
    (/\ Returned(t, "get_opex_breakdown")
     /\ InList(month_columns, threads[t].args[1])
     /\ InList(actuals.columns, ColAccount)
     /\ OpexSubcategories(threads[t].args[1]) # {}) =>
      /\ Len(threads[t].result.v) = Cardinality(OpexSubcategories(threads[t].args[1]))
      /\ \A a \in OpexSubcategories(threads[t].args[1]) :
           \E i \in 1..Len(threads[t].result.v) :
             threads[t].result.v[i].amount_usd =
               LET IsA(row) == row[ColAccount] = a IN UsdOfRows(threads[t].args[1], IsA)

\* C29, as stated: in get_ebitda(month) every actuals row is counted in exactly
\* one of revenue, cogs and opex, so revenue + cogs + opex is the sum of the USD
\* amounts of all actuals rows of the month, whatever the account labels are.
EbitdaPartsCoverEveryRowOnce ==
  \A t \in DOMAIN threads :
    (Returned(t, "get_ebitda") /\ threads[t].result.v.some) =>
      threads[t].result.v.v.revenue + threads[t].result.v.v.cogs + threads[t].result.v.v.opex =
        LET Every(row) == TRUE IN UsdOfRows(threads[t].args[1], Every)

(***************************************************************************)
(* The claims about the responses and the classification                   *)
(***************************************************************************)

\* The handler that answered is one of the trend handlers: revenue trend, cash
\* trend, or gross margin over a window.
TrendHandlerAnswered ==
  \/ intent \in {"revenue_trend", "cash_trend"}
  \/ intent = "gross_margin" /\ DictGet(params, "period", "") = "last_3_months"

\* The response reports data: it is neither an error text nor a "no data" sentence.
ReportsData ==
  /\ response # <<>>
  /\ \A i \in 1..Len(response) : response[i].k # "exception"
  /\ response[1].k = "text" /\ response[1].s \notin NoDataSentences

\* The i-th piece of the response is the chart marker.
MarkerAt(i) == response[i].k = "text" /\ response[i].s = "\nCHART_DATA:"

\* C26, as stated: every trend handler that has data appends the marker and the
\* JSON of the rows of its aggregation; every other response has no marker.
TrendsCarryTheChartData ==
  phase = "answered" =>
    IF TrendHandlerAnswered /\ ReportsData
    THEN \E i \in 1..(Len(response) - 1) :
           /\ MarkerAt(i)
           /\ response[i + 1].k = "json"
           /\ response[i + 1].v =
                CallAlone(Tools, calls[1].op, <<calls[1].start_month, calls[1].end_month>>).v
    ELSE \A i \in 1..Len(response) : ~MarkerAt(i)

\* The status flags of a response, in the order they appear.
StatusFlags ==
  LET IsFlag(piece) ==
        /\ piece.k = "text"
        /\ piece.s \in {"* **Status:** Critical - Consider fundraising\n",
                        "* **Status:** Caution - Monitor closely\n",
                        "* **Status:** Healthy\n"}
  IN SelectSeq(response, IsFlag)

\* C27: the cash-runway response has one status flag exactly when get_cash_runway
\* returns a value r: critical when r < 6, caution when 6 <= r < 12, healthy when
\* r >= 12; the response of no other handler has a status flag.
StatusFollowsTheRunway ==
  phase = "answered" =>
    IF intent = "cash_runway" /\ GetCashRunway(Tools).some
    THEN /\ Len(StatusFlags) = 1
         /\ StatusFlags[1].s =
              IF GetCashRunway(Tools).v.num < 6 * GetCashRunway(Tools).v.den
              THEN "* **Status:** Critical - Consider fundraising\n"
              ELSE IF GetCashRunway(Tools).v.num < 12 * GetCashRunway(Tools).v.den
              THEN "* **Status:** Caution - Monitor closely\n"
              ELSE "* **Status:** Healthy\n"
    ELSE StatusFlags = <<>>

\* A runway of 8 months was answered with the flag of caution.
CautionWasFlagged ==
  /\ phase = "answered"
  /\ intent = "cash_runway"
  /\ GetCashRunway(Tools) = Some(Ratio(160000, 20000))
  /\ Len(StatusFlags) = 1
  /\ StatusFlags[1].s = "* **Status:** Caution - Monitor closely\n"

ParamsAreNeverEmpty ==
  (phase = "answered" /\ query # NotAString) =>
    \/ "specific_month" \in DOMAIN params
    \/ "period" \in DOMAIN params

\* The query 'quarter' was answered: no period, and the latest month by default.
QuarterWithoutNumber ==
  /\ phase = "answered"
  /\ Lower(query) = <<"q","u","a","r","t","e","r">>
  /\ DOMAIN params = {"specific_month"}
  /\ params["specific_month"] = GetLatestMonth(month_columns)

====
